---- MODULE Spec2Model ----
(***************************************************************************)
(* openaikeyserver: OAuth2 callback flow, identity-token authorization,    *)
(* API-key issuance and the cleanup sweep of expired keys.                 *)
(*                                                                         *)
(* Strings that the code inspects character by character (emails, hosted   *)
(* domains, allow-list entries) are sequences of one-character strings;    *)
(* opaque strings (codes, state tokens, messages) are TLA+ strings.        *)
(***************************************************************************)
EXTENDS Integers, Sequences, FiniteSets, TLC

VARIABLES
    allowedUsers,    \* OIDC.allowedUsers: the configured explicit emails
    allowedDomains,  \* OIDC.allowedDomains: the configured email domains
    oidcCall,        \* the last direct call of the OIDC component and its result
    jar,             \* the browser's oauthstate cookie (NoCookie when absent)
    projects,        \* resource API: the organization's projects, in listing order
    accounts,        \* resource API: the service accounts, in listing order
    nextId,          \* resource API: the next ID the server assigns
    now,             \* the clock, in seconds
    last,            \* the last HTTP request handled, the calls it made, its response
    mgmtCall,        \* the last direct call of the Management component and its result
    clientCall,      \* the last direct call of the resource client and its result
    task,            \* the periodic cleanup task: its position, the ticker's channel
    goroutines       \* the calls in progress that run step by step, by goroutine

vars ==
    <<allowedUsers, allowedDomains, oidcCall, jar, projects, accounts, nextId, now, last,
      mgmtCall, clientCall, task, goroutines>>

-----------------------------------------------------------------------------
(* Bounds of the model *)

MaxEmailLen == 4     \* longest email drawn for the OIDC component
MaxAccounts == 2     \* service accounts the resource API holds at most
MaxTime == 2         \* the clock stops advancing here

-----------------------------------------------------------------------------
(* Strings *)

Chars == {"u", "@", "d"}

RECURSIVE StringsUpTo(_)
StringsUpTo(n) ==
    IF n = 0 THEN {<<>>}
    ELSE LET shorter == StringsUpTo(n - 1)
         IN  shorter \cup {Append(s, c) : s \in {t \in shorter : Len(t) = n - 1}, c \in Chars}

\* index of the first occurrence of character c in s at or after position i, 0 if none
RECURSIVE IndexFrom(_, _, _)
IndexFrom(s, c, i) ==
    IF i > Len(s) THEN 0
    ELSE IF s[i] = c THEN i
    ELSE IndexFrom(s, c, i + 1)

\* strings.Split(s, sep) for a one-character separator: the substrings between the
\* separators, one more than there are separators
RECURSIVE Split(_, _)
Split(s, sep) ==
    LET i == IndexFrom(s, sep, 1)
    IN  IF i = 0 THEN <<s>>
        ELSE <<SubSeq(s, 1, i - 1)>> \o Split(SubSeq(s, i + 1, Len(s)), sep)

\* the text of a sequence of characters, as the %s verb renders it
RECURSIVE Str(_)
Str(s) == IF s = <<>> THEN "" ELSE Head(s) \o Str(Tail(s))

\* slices.Contains over a configured list
Contains(list, x) == x \in list

-----------------------------------------------------------------------------
(* Configuration *)

defaultProjectName == "personal"

\* allow-list entries a configuration may hold (strings.Split of the environment
\* value on ",": an entry may be empty)
UserPool == {<<"u", "@", "d">>, <<"u">>, <<"u", "@", "@", "d">>}
DomainPool == {<<"d">>, <<"u">>, <<>>}
HdPool == {<<>>, <<"d">>, <<"u">>}

NoCall == [op |-> "none"]        \* no direct call of the component yet
NoCookie == "<none>"             \* the request carries no oauthstate cookie
NoRequest == [handler |-> "none"]
NoTask == [pc |-> "none"]           \* no periodic task in the specification
NoGoroutines == <<>>                \* no call runs step by step in the specification

-----------------------------------------------------------------------------
(* OIDC: authorization of verified claims *)

\* the hd comparison left out (the domain rule trusts the email text alone)
isUserAllowedNoHd(serviceAccountName, hd) ==
    \/ Contains(allowedUsers, serviceAccountName)
    \/ LET parts == Split(serviceAccountName, "@")
       IN  /\ Len(parts) = 2
           /\ Contains(allowedDomains, parts[2])

\* the "exactly two parts" test left out (the domain is whatever follows the last @)
isUserAllowedAnyParts(serviceAccountName, hd) ==
    \/ Contains(allowedUsers, serviceAccountName)
    \/ LET parts == Split(serviceAccountName, "@")
       IN  /\ Len(parts) >= 2
           /\ parts[Len(parts)] # <<>>
           /\ parts[Len(parts)] = hd
           /\ Contains(allowedDomains, parts[Len(parts)])

isUserAllowed(serviceAccountName, hd) ==
    IF Contains(allowedUsers, serviceAccountName) THEN TRUE
    ELSE LET parts == Split(serviceAccountName, "@")
         IN  IF Len(parts) = 2
             THEN LET domain == parts[2]
                  IN  IF domain = <<>> \/ domain # hd THEN FALSE
                      ELSE IF Contains(allowedDomains, domain) THEN TRUE
                      ELSE FALSE
             ELSE FALSE

\* what TokenVerifier.VerifyToken returns: an error, or the token's claims
VerifyErrors == {"oidc: token is expired", "oidc: failed to verify signature"}
VerifyFailed == [ok : {FALSE}, err : VerifyErrors]
VerifiedClaims(emails) ==
    [ok : {TRUE}, Email : emails, EmailVerified : BOOLEAN, Hd : HdPool]

NoIdentity == [err |-> "", projectName |-> "", serviceAccountName |-> <<>>]

\* the email_verified test left out
ExtractGoogleIDTokenUnverified(v) ==
    IF ~v.ok THEN [NoIdentity EXCEPT !.err = "verify id token: " \o v.err]
    ELSE IF ~isUserAllowed(v.Email, v.Hd)
    THEN [NoIdentity EXCEPT !.err = "user not allowed to access the service " \o Str(v.Email)]
    ELSE [err |-> "nil", projectName |-> defaultProjectName, serviceAccountName |-> v.Email]

\* v is the outcome of verifier.VerifyToken(ctx, aud, idToken)
ExtractGoogleIDToken(v) ==
    IF ~v.ok THEN [NoIdentity EXCEPT !.err = "verify id token: " \o v.err]
    ELSE IF ~v.EmailVerified THEN [NoIdentity EXCEPT !.err = "verify email"]
    ELSE IF ~isUserAllowed(v.Email, v.Hd)
    THEN [NoIdentity EXCEPT !.err = "user not allowed to access the service " \o Str(v.Email)]
    ELSE [err |-> "nil", projectName |-> defaultProjectName, serviceAccountName |-> v.Email]

-----------------------------------------------------------------------------
(* Resource-management API client.  A store st is the server's state:         *)
(* [projects, accounts, nextId].  fail is the error of doRequest ("nil" when   *)
(* the request succeeds); a failed request leaves the store unchanged.         *)

\* the errors of doRequest: a transport failure, an APIError for a status >= 400
ApiErrors == {"execute http request: timeout",
              "receive api response: invalid key (status code: 401)"}
ApiResults == {"nil"} \cup ApiErrors

NoProject == [ID |-> <<>>, Name |-> ""]
NoAccount == [ID |-> <<>>, Project |-> <<>>, Name |-> <<>>, CreatedAt |-> 0, Value |-> <<>>]

Store == [projects |-> projects, accounts |-> accounts, nextId |-> nextId]

\* index of the first project of the listing named projectName, 0 if none
RECURSIVE FirstNamed(_, _, _)
FirstNamed(list, projectName, i) ==
    IF i > Len(list) THEN 0
    ELSE IF list[i].Name = projectName THEN i
    ELSE FirstNamed(list, projectName, i + 1)

GetProject(st, projectName, fail) ==
    IF fail # "nil"
    THEN [err |-> "get project list: " \o fail, found |-> FALSE, project |-> NoProject]
    ELSE LET i == FirstNamed(st.projects, projectName, 1)
         IN  IF i # 0 THEN [err |-> "nil", found |-> TRUE, project |-> st.projects[i]]
             ELSE [err |-> "nil", found |-> FALSE, project |-> NoProject]

CreateProject(st, name, fail) ==
    IF fail # "nil" THEN [err |-> "create project: " \o fail, project |-> NoProject, st |-> st]
    ELSE LET project == [ID |-> <<"proj", st.nextId>>, Name |-> name]
         IN  [err |-> "nil", project |-> project,
              st |-> [st EXCEPT !.projects = Append(@, project), !.nextId = @ + 1]]

CreateServiceAccount(st, projectID, name, fail) ==
    IF fail # "nil"
    THEN [err |-> "create service account: " \o fail, account |-> NoAccount, st |-> st]
    ELSE LET account == [ID |-> <<"sa", st.nextId>>, Project |-> projectID, Name |-> name,
                         CreatedAt |-> now, Value |-> <<"sk", st.nextId>>]
         IN  [err |-> "nil", account |-> account,
              st |-> [st EXCEPT !.accounts = Append(@, account), !.nextId = @ + 1]]

\* the listing not confined to the project
ListServiceAccountsAll(st, projectID, fail) ==
    IF fail # "nil"
    THEN [err |-> "get service account list: " \o fail, accounts |-> <<>>]
    ELSE [err |-> "nil", accounts |-> st.accounts]

\* every service account of the project, the pages of the listing in order
ListServiceAccounts(st, projectID, fail) ==
    IF fail # "nil"
    THEN [err |-> "get service account list: " \o fail, accounts |-> <<>>]
    ELSE [err |-> "nil", accounts |-> SelectSeq(st.accounts, LAMBDA a : a.Project = projectID)]

\* DELETE /projects/{projectID}/service_accounts/{serviceAccountID}; the server answers
\* 404 when the project holds no such account
DeleteServiceAccount(st, projectID, serviceAccountID, fail) ==
    IF fail # "nil" THEN [err |-> "delete service account: " \o fail, st |-> st]
    ELSE IF \A i \in 1..Len(st.accounts) :
               st.accounts[i].Project # projectID \/ st.accounts[i].ID # serviceAccountID
    THEN [err |-> "delete service account: receive api response: not found (status code: 404)",
          st |-> st]
    ELSE [err |-> "nil",
          st |-> [st EXCEPT !.accounts = SelectSeq(@, LAMBDA a :
                     a.Project # projectID \/ a.ID # serviceAccountID)]]

-----------------------------------------------------------------------------
(* Resource-management API client: the HTTP exchanges.  A reply is what         *)
(* HTTPClient.Do returns for one request: a transport failure, or a status and  *)
(* a body.  A body is JSON holding a list response, or text that is not JSON.   *)

MaxPages == 3

pageSize == 100

\* the objects the server lists (projects, or service accounts), the pages it answers
\* with, and its cursors
ListItems == [ID : {"a", "b"}, Name : {"personal"}] \cup [ID : {"c"}, Name : {"other"}]
Item(id) == CHOOSE x \in ListItems : x.ID = id
Cursors == {"a", "b"}

NoPage == [Data |-> <<>>, HasMore |-> FALSE, LastID |-> ""]
ListResponses ==
    [Data : {<<>>, <<Item("a")>>, <<Item("b")>>, <<Item("c"), Item("a")>>},
     HasMore : BOOLEAN, LastID : Cursors]

NoBody == [json |-> FALSE, text |-> "", doc |-> NoPage]
Bodies == {[json |-> FALSE, text |-> "Bad Request", doc |-> NoPage]}
              \cup {[json |-> TRUE, text |-> "", doc |-> p] : p \in ListResponses}

TransportFailed == [transport |-> "http client error", StatusCode |-> 0, Body |-> NoBody]
Answers(statuses) == [transport : {"nil"}, StatusCode : statuses, Body : Bodies]

\* every reply to a single request
Replies == {TransportFailed} \cup Answers({101, 200, 204, 301, 304, 399, 400, 404, 500})

\* the replies the scripts of the listings draw from: every page with status 200, and
\* a redirect or an error status with text or with a page
PageReplies ==
    {TransportFailed} \cup Answers({200})
        \cup {r \in Answers({301, 400}) :
                 \/ ~r.Body.json
                 \/ r.Body.doc = [Data |-> <<Item("a")>>, HasMore |-> TRUE, LastID |-> "b"]
                 \/ r.Body.doc = [Data |-> <<Item("b")>>, HasMore |-> FALSE, LastID |-> "b"]}

\* an error: the chain of fmt.Errorf("...: %w") prefixes, the innermost message, and the
\* *APIError that errors.As finds in the chain
NoAPIError == [StatusCode |-> 0, Message |-> NoBody]
NoError == [wrap |-> <<>>, cause |-> "nil", api |-> NoAPIError]
Wrap(msg, err) == [err EXCEPT !.wrap = <<msg>> \o @]

\* the request sent again after a transport failure
doRequestRetry(req, reply) ==
    IF reply.transport # "nil"
    THEN [body |-> NoBody, sent |-> <<req, req>>,
          err |-> [wrap |-> <<"execute http request">>, cause |-> reply.transport,
                   api |-> NoAPIError]]
    ELSE IF reply.StatusCode >= 400
    THEN [body |-> NoBody, sent |-> <<req>>,
          err |-> [wrap |-> <<>>, cause |-> "receive api response",
                   api |-> [StatusCode |-> reply.StatusCode, Message |-> reply.Body]]]
    ELSE [body |-> reply.Body, sent |-> <<req>>, err |-> NoError]

\* the body of an error response decoded, its text kept only when it is not JSON
doRequestParsedError(req, reply) ==
    IF reply.transport # "nil"
    THEN [body |-> NoBody, sent |-> <<req>>,
          err |-> [wrap |-> <<"execute http request">>, cause |-> reply.transport,
                   api |-> NoAPIError]]
    ELSE IF reply.StatusCode >= 400
    THEN [body |-> IF reply.Body.json THEN reply.Body ELSE NoBody, sent |-> <<req>>,
          err |-> [wrap |-> <<>>, cause |-> "receive api response",
                   api |-> [StatusCode |-> reply.StatusCode,
                            Message |-> IF reply.Body.json THEN NoBody ELSE reply.Body]]]
    ELSE [body |-> reply.Body, sent |-> <<req>>, err |-> NoError]

\* every status outside 200..299 an APIError
doRequestOnly2xx(req, reply) ==
    IF reply.transport # "nil"
    THEN [body |-> NoBody, sent |-> <<req>>,
          err |-> [wrap |-> <<"execute http request">>, cause |-> reply.transport,
                   api |-> NoAPIError]]
    ELSE IF reply.StatusCode < 200 \/ reply.StatusCode >= 300
    THEN [body |-> NoBody, sent |-> <<req>>,
          err |-> [wrap |-> <<>>, cause |-> "receive api response",
                   api |-> [StatusCode |-> reply.StatusCode, Message |-> reply.Body]]]
    ELSE [body |-> reply.Body, sent |-> <<req>>, err |-> NoError]

\* one call of HTTPClient.Do; sent lists the requests handed to it
doRequest(req, reply) ==
    IF reply.transport # "nil"
    THEN [body |-> NoBody, sent |-> <<req>>,
          err |-> [wrap |-> <<"execute http request">>, cause |-> reply.transport,
                   api |-> NoAPIError]]
    ELSE IF reply.StatusCode >= 400
    THEN [body |-> NoBody, sent |-> <<req>>,
          err |-> [wrap |-> <<>>, cause |-> "receive api response",
                   api |-> [StatusCode |-> reply.StatusCode, Message |-> reply.Body]]]
    ELSE [body |-> reply.Body, sent |-> <<req>>, err |-> NoError]

\* the result of a page request: the error of doRequest wrapped, or the body decoded by
\* json.Unmarshal
PageResult(r) ==
    IF r.err # NoError
    THEN [page |-> NoPage, err |-> Wrap("execute request", r.err), sent |-> r.sent]
    ELSE IF ~r.body.json
    THEN [page |-> NoPage, sent |-> r.sent,
          err |-> [wrap |-> <<"unmarshal json">>, cause |-> "invalid character",
                   api |-> NoAPIError]]
    ELSE [page |-> r.body.doc, err |-> NoError, sent |-> r.sent]

\* the query of a page request: after is set only when it is not empty
Query(after, limit) == [after |-> after, limit |-> IF limit > 0 THEN limit ELSE 0]

listServiceAccounts(projectID, after, limit, reply) ==
    PageResult(doRequest([method |-> "GET",
                          path |-> "/projects/" \o projectID \o "/service_accounts",
                          query |-> Query(after, limit)], reply))

listProject(after, limit, includeArchived, reply) ==
    PageResult(doRequest([method |-> "GET", path |-> "/projects",
                          query |-> Query(after, limit)], reply))

\* a reply after which a listing asks for the next page
Continues(reply) ==
    /\ reply.transport = "nil"
    /\ reply.StatusCode < 400
    /\ reply.Body.json
    /\ reply.Body.doc.HasMore

\* the replies the server may give to the n-th request of a listing: the listings
\* considered end within MaxPages requests
RepliesAt(n) == IF n < MaxPages THEN PageReplies ELSE {r \in PageReplies : ~Continues(r)}

\* the cursor never advanced: every request asks for the first page
RECURSIVE ListServiceAccountsFromStart(_, _, _, _)
ListServiceAccountsFromStart(projectID, after, allAccounts, trace) ==
    UNION { LET resp == listServiceAccounts(projectID, "", pageSize, reply)
                t == Append(trace, [sent |-> resp.sent, reply |-> reply])
            IN  IF resp.err # NoError
                THEN {[accounts |-> <<>>, err |-> Wrap("get service account list", resp.err),
                       trace |-> t]}
                ELSE IF ~resp.page.HasMore
                THEN {[accounts |-> allAccounts \o resp.page.Data, err |-> NoError,
                       trace |-> t]}
                ELSE ListServiceAccountsFromStart(projectID, resp.page.LastID,
                                                  allAccounts \o resp.page.Data, t)
            : reply \in RepliesAt(Len(trace) + 1) }

\* the loop of ListServiceAccounts from the cursor after on: the results the server's
\* replies allow, each with the exchanges that led to it
RECURSIVE ListServiceAccountsFrom(_, _, _, _)
ListServiceAccountsFrom(projectID, after, allAccounts, trace) ==
    UNION { LET resp == listServiceAccounts(projectID, after, pageSize, reply)
                t == Append(trace, [sent |-> resp.sent, reply |-> reply])
            IN  IF resp.err # NoError
                THEN {[accounts |-> <<>>, err |-> Wrap("get service account list", resp.err),
                       trace |-> t]}
                ELSE IF ~resp.page.HasMore
                THEN {[accounts |-> allAccounts \o resp.page.Data, err |-> NoError,
                       trace |-> t]}
                ELSE ListServiceAccountsFrom(projectID, resp.page.LastID,
                                             allAccounts \o resp.page.Data, t)
            : reply \in RepliesAt(Len(trace) + 1) }

ListServiceAccountsPaged(projectID) == ListServiceAccountsFrom(projectID, "", <<>>, <<>>)

\* the loop of listProjects from the cursor after on
RECURSIVE ListProjectsFrom(_, _, _, _)
ListProjectsFrom(includeArchived, after, allProjects, trace) ==
    UNION { LET resp == listProject(after, pageSize, includeArchived, reply)
                t == Append(trace, [sent |-> resp.sent, reply |-> reply])
            IN  IF resp.err # NoError
                THEN {[projects |-> <<>>, err |-> Wrap("get project list", resp.err),
                       trace |-> t]}
                ELSE IF ~resp.page.HasMore
                THEN {[projects |-> allProjects \o resp.page.Data, err |-> NoError,
                       trace |-> t]}
                ELSE ListProjectsFrom(includeArchived, resp.page.LastID,
                                      allProjects \o resp.page.Data, t)
            : reply \in RepliesAt(Len(trace) + 1) }

listProjects(includeArchived) == ListProjectsFrom(includeArchived, "", <<>>, <<>>)

NoListItem == [ID |-> "", Name |-> ""]

\* the last project of the name
GetProjectPagedLast(projectName) ==
    { IF r.err # NoError
      THEN [project |-> NoListItem, found |-> FALSE, err |-> Wrap("get project list", r.err),
            trace |-> r.trace]
      ELSE LET named == {i \in 1..Len(r.projects) : r.projects[i].Name = projectName}
           IN  IF named = {}
               THEN [project |-> NoListItem, found |-> FALSE, err |-> NoError,
                     trace |-> r.trace]
               ELSE [project |-> r.projects[CHOOSE i \in named : \A j \in named : j <= i],
                     found |-> TRUE, err |-> NoError, trace |-> r.trace]
      : r \in listProjects(FALSE) }

\* GetProject over the pages of listProjects
GetProjectPaged(projectName) ==
    { IF r.err # NoError
      THEN [project |-> NoListItem, found |-> FALSE, err |-> Wrap("get project list", r.err),
            trace |-> r.trace]
      ELSE LET i == FirstNamed(r.projects, projectName, 1)
           IN  IF i # 0
               THEN [project |-> r.projects[i], found |-> TRUE, err |-> NoError,
                     trace |-> r.trace]
               ELSE [project |-> NoListItem, found |-> FALSE, err |-> NoError,
                     trace |-> r.trace]
      : r \in listProjects(FALSE) }

-----------------------------------------------------------------------------
(* Management *)

Expiration == 1      \* Management.expiration, in seconds
NoTime == <<>>       \* a nil *time.Time; a time t is <<t>>
NoKey == <<>>

\* which of the requests of one CreateAPIKey call fail (after a failed lookup there is
\* no other request whose result could differ)
ApiOutcomes ==
    { api \in [GetProject : ApiResults, CreateProject : ApiResults,
               CreateServiceAccount : ApiResults] :
        api.GetProject # "nil" => api.CreateProject = "nil" /\ api.CreateServiceAccount = "nil" }

Failed(st, err, calls) ==
    [key |-> NoKey, expiration |-> NoTime, err |-> err, calls |-> calls, st |-> st]

\* the project created whatever the lookup finds
ResolveProjectAlwaysCreate(st, projectName, api) ==
    LET got == GetProject(st, projectName, api.GetProject)
        c1 == <<[op |-> "GetProject", name |-> projectName, err |-> got.err,
                 found |-> got.found, project |-> got.project]>>
    IN  IF got.err # "nil"
        THEN [err |-> "get project: " \o got.err, project |-> NoProject, st |-> st, calls |-> c1]
        ELSE
        LET made == CreateProject(st, projectName, api.CreateProject)
            c2 == c1 \o <<[op |-> "CreateProject", name |-> projectName, err |-> made.err,
                           project |-> made.project]>>
        IN  IF made.err # "nil"
            THEN [err |-> "create project: " \o made.err, project |-> NoProject,
                  st |-> made.st, calls |-> c2]
            ELSE [err |-> "nil", project |-> made.project, st |-> made.st, calls |-> c2]

\* a failed lookup taken for a tenant that does not exist
ResolveProjectErrAsMissing(st, projectName, api) ==
    LET got == GetProject(st, projectName, api.GetProject)
        c1 == <<[op |-> "GetProject", name |-> projectName, err |-> got.err,
                 found |-> got.found, project |-> got.project]>>
    IN  IF got.found
        THEN [err |-> "nil", project |-> got.project, st |-> st, calls |-> c1]
        ELSE
        LET made == CreateProject(st, projectName, api.CreateProject)
            c2 == c1 \o <<[op |-> "CreateProject", name |-> projectName, err |-> made.err,
                           project |-> made.project]>>
        IN  IF made.err # "nil"
            THEN [err |-> "create project: " \o made.err, project |-> NoProject,
                  st |-> made.st, calls |-> c2]
            ELSE [err |-> "nil", project |-> made.project, st |-> made.st, calls |-> c2]

\* the project of the tenant: looked up, and created when the lookup finds none
ResolveProject(st, projectName, api) ==
    LET got == GetProject(st, projectName, api.GetProject)
        c1 == <<[op |-> "GetProject", name |-> projectName, err |-> got.err,
                 found |-> got.found, project |-> got.project]>>
    IN  IF got.err # "nil"
        THEN [err |-> "get project: " \o got.err, project |-> NoProject, st |-> st, calls |-> c1]
        ELSE IF got.found
        THEN [err |-> "nil", project |-> got.project, st |-> st, calls |-> c1]
        ELSE
        LET made == CreateProject(st, projectName, api.CreateProject)
            c2 == c1 \o <<[op |-> "CreateProject", name |-> projectName, err |-> made.err,
                           project |-> made.project]>>
        IN  IF made.err # "nil"
            THEN [err |-> "create project: " \o made.err, project |-> NoProject,
                  st |-> made.st, calls |-> c2]
            ELSE [err |-> "nil", project |-> made.project, st |-> made.st, calls |-> c2]

\* a service account the project already holds for the principal used again
CreateAPIKeyReuse(st, projectName, serviceAccountName, api) ==
    LET p == ResolveProject(st, projectName, api)
    IN  IF p.err # "nil" THEN Failed(p.st, p.err, p.calls)
        ELSE
        LET held == SelectSeq(p.st.accounts, LAMBDA a :
                        a.Project = p.project.ID /\ a.Name = serviceAccountName)
            sa == IF held # <<>> THEN [err |-> "nil", account |-> held[1], st |-> p.st]
                  ELSE CreateServiceAccount(p.st, p.project.ID, serviceAccountName,
                                            api.CreateServiceAccount)
            c3 == p.calls \o <<[op |-> "CreateServiceAccount", project |-> p.project.ID,
                                name |-> serviceAccountName, err |-> sa.err,
                                account |-> sa.account]>>
        IN  IF sa.err # "nil" THEN Failed(sa.st, "create service account: " \o sa.err, c3)
            ELSE [key |-> sa.account.Value, expiration |-> <<now + Expiration>>,
                  err |-> "nil", calls |-> c3, st |-> sa.st]

\* the expiration subtracted, as for the cutoff of the sweep
CreateAPIKeyCutoff(st, projectName, serviceAccountName, api) ==
    LET p == ResolveProject(st, projectName, api)
    IN  IF p.err # "nil" THEN Failed(p.st, p.err, p.calls)
        ELSE
        LET sa == CreateServiceAccount(p.st, p.project.ID, serviceAccountName,
                                       api.CreateServiceAccount)
            c3 == p.calls \o <<[op |-> "CreateServiceAccount", project |-> p.project.ID,
                                name |-> serviceAccountName, err |-> sa.err,
                                account |-> sa.account]>>
        IN  IF sa.err # "nil" THEN Failed(sa.st, "create service account: " \o sa.err, c3)
            ELSE [key |-> sa.account.Value, expiration |-> <<now - Expiration>>,
                  err |-> "nil", calls |-> c3, st |-> sa.st]

CreateAPIKey(st, projectName, serviceAccountName, api) ==
    LET p == ResolveProject(st, projectName, api)
    IN  IF p.err # "nil" THEN Failed(p.st, p.err, p.calls)
        ELSE
        LET sa == CreateServiceAccount(p.st, p.project.ID, serviceAccountName,
                                       api.CreateServiceAccount)
            c3 == p.calls \o <<[op |-> "CreateServiceAccount", project |-> p.project.ID,
                                name |-> serviceAccountName, err |-> sa.err,
                                account |-> sa.account]>>
        IN  IF sa.err # "nil" THEN Failed(sa.st, "create service account: " \o sa.err, c3)
            ELSE [key |-> sa.account.Value, expiration |-> <<now + Expiration>>,
                  err |-> "nil", calls |-> c3, st |-> sa.st]

\* an account created exactly at the cutoff taken for stale
IsStaleOrAtCutoff(account, t) == account.CreatedAt <= t - Expiration

\* createdAt.Before(cutoff), the cutoff being t less the configured expiration
IsStale(account, t) == account.CreatedAt < t - Expiration

\* the loop going on after a failed delete, the first error returned at the end
RECURSIVE SweepBestEffort(_, _, _, _, _, _)
SweepBestEffort(st, projectID, listed, i, fails, calls) ==
    IF i > Len(listed)
    THEN LET bad == {j \in 1..Len(calls) :
                        calls[j].op = "DeleteServiceAccount" /\ calls[j].err # "nil"}
         IN  [err |-> IF bad = {} THEN "nil"
                      ELSE "delete service account: "
                               \o calls[CHOOSE j \in bad : \A k \in bad : j <= k].err,
              calls |-> calls, st |-> st]
    ELSE IF ~IsStale(listed[i], now)
    THEN SweepBestEffort(st, projectID, listed, i + 1, fails, calls)
    ELSE LET d == DeleteServiceAccount(st, projectID, listed[i].ID, fails[i])
             c == Append(calls, [op |-> "DeleteServiceAccount", project |-> projectID,
                                 id |-> listed[i].ID, err |-> d.err])
         IN  SweepBestEffort(d.st, projectID, listed, i + 1, fails, c)

\* the loop over the listing, from its i-th account on; fails[i] is the error of the
\* delete request for the i-th account
RECURSIVE Sweep(_, _, _, _, _, _)
Sweep(st, projectID, listed, i, fails, calls) ==
    IF i > Len(listed) THEN [err |-> "nil", calls |-> calls, st |-> st]
    ELSE IF ~IsStale(listed[i], now) THEN Sweep(st, projectID, listed, i + 1, fails, calls)
    ELSE LET d == DeleteServiceAccount(st, projectID, listed[i].ID, fails[i])
             c == Append(calls, [op |-> "DeleteServiceAccount", project |-> projectID,
                                 id |-> listed[i].ID, err |-> d.err])
         IN  IF d.err # "nil"
             THEN [err |-> "delete service account: " \o d.err, calls |-> c, st |-> d.st]
             ELSE Sweep(d.st, projectID, listed, i + 1, fails, c)

\* which of the requests of one CleanupAPIKey call fail (after a failed lookup or
\* listing there is no listed account whose delete request could fail)
CleanupOutcomes ==
    { api \in [GetProject : ApiResults, ListServiceAccounts : ApiResults,
               DeleteServiceAccount : [1..MaxAccounts -> ApiResults]] :
        /\ api.GetProject # "nil" => api.ListServiceAccounts = "nil"
        /\ (api.GetProject # "nil" \/ api.ListServiceAccounts # "nil") =>
              \A i \in 1..MaxAccounts : api.DeleteServiceAccount[i] = "nil" }

\* the tenant resolved as for issuance: created when it does not exist
CleanupAPIKeyCreating(st, projectName, api) ==
    LET p == ResolveProject(st, projectName,
                            [GetProject |-> api.GetProject, CreateProject |-> "nil"])
    IN  IF p.err # "nil" THEN [err |-> p.err, calls |-> p.calls, st |-> p.st]
        ELSE
        LET ls == ListServiceAccounts(p.st, p.project.ID, api.ListServiceAccounts)
            c2 == p.calls \o <<[op |-> "ListServiceAccounts", project |-> p.project.ID,
                                err |-> ls.err, accounts |-> ls.accounts]>>
        IN  IF ls.err # "nil"
            THEN [err |-> "list service accounts: " \o ls.err, calls |-> c2, st |-> p.st]
            ELSE Sweep(p.st, p.project.ID, ls.accounts, 1, api.DeleteServiceAccount, c2)

\* the sweep that also removes a tenant it leaves without service accounts
CleanupAPIKeyArchiving(st, projectName, api) ==
    LET got == GetProject(st, projectName, api.GetProject)
        c1 == <<[op |-> "GetProject", name |-> projectName, err |-> got.err,
                 found |-> got.found, project |-> got.project]>>
    IN  IF got.err # "nil" THEN [err |-> "get project: " \o got.err, calls |-> c1, st |-> st]
        ELSE IF ~got.found THEN [err |-> "find project " \o projectName, calls |-> c1, st |-> st]
        ELSE
        LET ls == ListServiceAccounts(st, got.project.ID, api.ListServiceAccounts)
            c2 == c1 \o <<[op |-> "ListServiceAccounts", project |-> got.project.ID,
                           err |-> ls.err, accounts |-> ls.accounts]>>
        IN  IF ls.err # "nil"
            THEN [err |-> "list service accounts: " \o ls.err, calls |-> c2, st |-> st]
            ELSE LET r == Sweep(st, got.project.ID, ls.accounts, 1, api.DeleteServiceAccount, c2)
                 IN  IF r.err = "nil"
                        /\ \A i \in 1..Len(r.st.accounts) :
                              r.st.accounts[i].Project # got.project.ID
                     THEN [r EXCEPT !.st.projects =
                             SelectSeq(@, LAMBDA p : p.ID # got.project.ID)]
                     ELSE r

CleanupAPIKey(st, projectName, api) ==
    LET got == GetProject(st, projectName, api.GetProject)
        c1 == <<[op |-> "GetProject", name |-> projectName, err |-> got.err,
                 found |-> got.found, project |-> got.project]>>
    IN  IF got.err # "nil" THEN [err |-> "get project: " \o got.err, calls |-> c1, st |-> st]
        ELSE IF ~got.found THEN [err |-> "find project " \o projectName, calls |-> c1, st |-> st]
        ELSE
        LET ls == ListServiceAccounts(st, got.project.ID, api.ListServiceAccounts)
            c2 == c1 \o <<[op |-> "ListServiceAccounts", project |-> got.project.ID,
                           err |-> ls.err, accounts |-> ls.accounts]>>
        IN  IF ls.err # "nil"
            THEN [err |-> "list service accounts: " \o ls.err, calls |-> c2, st |-> st]
            ELSE Sweep(st, got.project.ID, ls.accounts, 1, api.DeleteServiceAccount, c2)

-----------------------------------------------------------------------------
(* Handler: responses *)

StatusOK == 200
StatusFound == 302
StatusBadRequest == 400
StatusInternalServerError == 500

\* redirect targets: the root of this server, and oauth2Config.AuthCodeURL(state, ...)
NoLocation == <<>>
RootURL == <<"/">>
AuthCodeURL(state) == <<"https://accounts.google.com/o/oauth2/v2/auth", "state", state>>

Response(status, location, body, cookies) ==
    [status |-> status, location |-> location, body |-> body, cookies |-> cookies,
     key |-> NoKey, expires |-> NoTime]

\* the error value written to the client in place of the message
handleErrorEcho(cookies, err, status, msg) ==
    [log |-> <<[level |-> "ERROR", msg |-> msg, error |-> err]>>,
     resp |-> Response(status, NoLocation, err, cookies)]

\* slog.Error(msg, "error", err, ...) and http.Error(w, msg, status): the error value
\* goes to the log, the message to the client; the headers already set on w stay
handleError(cookies, err, status, msg) ==
    [log |-> <<[level |-> "ERROR", msg |-> msg, error |-> err]>>,
     resp |-> Response(status, NoLocation, msg, cookies)]

\* http.Redirect(w, r, url, http.StatusFound)
Redirect(cookies, url) == Response(StatusFound, url, "", cookies)


\* expiration.In(jst).Format("2006/01/02 15:04:05"): the wall clock of Asia/Tokyo,
\* nine hours ahead of UTC, to the second
FormatJST(t) == <<"Asia/Tokyo", t[1] + 9 * 3600>>

\* the page with the key and its expiry
KeyPage(cookies, key, expiration) ==
    [Response(StatusOK, NoLocation, "Your OpenAI API Key", cookies)
        EXCEPT !.key = key, !.expires = FormatJST(expiration)]

ClearedCookie ==
    [Name |-> "oauthstate", Value |-> "", Path |-> "/", MaxAge |-> -1,
     HttpOnly |-> TRUE, Secure |-> FALSE, SameSite |-> ""]

\* what one handling of a request did: the calls it made in order, its response and
\* the resource API's state after it
Outcome(calls, resp, st) == [calls |-> calls, resp |-> resp, st |-> st, log |-> <<>>]

\* a handling that ended in handleError: h is what handleError logged and answered
Errored(calls, h, st) == [calls |-> calls, resp |-> h.resp, st |-> st, log |-> h.log]

-----------------------------------------------------------------------------
(* Handler: GET /oauth2/callback.  Each step yields the set of outcomes      *)
(* the environment (token endpoint, verifier, resource API) allows.           *)

\* the identities the token verifier may report in the flow
FlowEmails == {<<"u", "@", "d">>, <<"d", "@", "u">>}
VerifyOutcomes == VerifyFailed \cup VerifiedClaims(FlowEmails)
ExchangeOutcomes == {"ok", "RetrieveError", "error"}

\* CreateAPIKey's result as the callback records it among its calls
IssueCall(id, r) ==
    [op |-> "CreateAPIKey", projectName |-> id.projectName,
     serviceAccountName |-> id.serviceAccountName, err |-> r.err, key |-> r.key,
     expiration |-> r.expiration, calls |-> r.calls]

\* CreateAPIKey and the rendering of its result
IssueStep(req, calls, cookies, id) ==
    { LET r == CreateAPIKey(Store, id.projectName, id.serviceAccountName, api)
          c == Append(calls, IssueCall(id, r))
      IN  IF r.err # "nil"
          THEN Errored(c, handleError(cookies, r.err, StatusInternalServerError,
                                      "Failed to create API key"), r.st)
          ELSE Outcome(c, KeyPage(cookies, r.key, r.expiration), r.st)
      : api \in ApiOutcomes }

\* the identity refused: the flow starts over instead of failing
IdentityStepRetry(req, calls, cookies) ==
    { Errored(calls \o <<[op |-> "id_token", ok |-> FALSE]>>,
              handleError(cookies, "id_token not found in token response",
                          StatusInternalServerError, "Invalid token response"),
              Store) }
    \cup
    UNION { LET id == ExtractGoogleIDToken(v)
                c == calls \o <<[op |-> "id_token", ok |-> TRUE],
                                [op |-> "ExtractGoogleIDToken", v |-> v, err |-> id.err]>>
            IN  IF id.err # "nil"
                THEN { Outcome(c, Redirect(cookies, RootURL), Store) }
                ELSE IssueStep(req, c, cookies, id)
            : v \in VerifyOutcomes }

\* the id_token of the token response (token.Extra) and its verification
IdentityStep(req, calls, cookies) ==
    { Errored(calls \o <<[op |-> "id_token", ok |-> FALSE]>>,
              handleError(cookies, "id_token not found in token response",
                          StatusInternalServerError, "Invalid token response"),
              Store) }
    \cup
    UNION { LET id == ExtractGoogleIDToken(v)
                c == calls \o <<[op |-> "id_token", ok |-> TRUE],
                                [op |-> "ExtractGoogleIDToken", v |-> v, err |-> id.err]>>
            IN  IF id.err # "nil"
                THEN { Errored(c, handleError(cookies, id.err, StatusInternalServerError,
                                              "Failed to verify ID token"), Store) }
                ELSE IssueStep(req, c, cookies, id)
            : v \in VerifyOutcomes }

\* the state cookie left in place
ExchangeStepKeepCookie(req) ==
    LET cookies == <<>>
        c0 == <<>>
    IN  UNION { LET c == c0 \o <<[op |-> "Exchange", code |-> req.code, result |-> x]>>
                IN  IF x = "RetrieveError" THEN { Outcome(c, Redirect(cookies, RootURL), Store) }
                    ELSE IF x # "ok"
                    THEN { Errored(c, handleError(cookies, x, StatusInternalServerError,
                                       "Failed to exchange authorization code"), Store) }
                    ELSE IdentityStep(req, c, cookies)
                : x \in ExchangeOutcomes }

\* an exchange the provider rejects treated like any other exchange failure
ExchangeStepAllFatal(req) ==
    LET cookies == <<ClearedCookie>>
        c0 == <<[op |-> "SetCookie", cookie |-> ClearedCookie]>>
    IN  UNION { LET c == c0 \o <<[op |-> "Exchange", code |-> req.code, result |-> x]>>
                IN  IF x # "ok"
                    THEN { Errored(c, handleError(cookies, x, StatusInternalServerError,
                                       "Failed to exchange authorization code"), Store) }
                    ELSE IdentityStep(req, c, cookies)
                : x \in ExchangeOutcomes }

\* the state cookie removed, then the code exchanged
ExchangeStep(req) ==
    LET cookies == <<ClearedCookie>>
        c0 == <<[op |-> "SetCookie", cookie |-> ClearedCookie]>>
    IN  UNION { LET c == c0 \o <<[op |-> "Exchange", code |-> req.code, result |-> x]>>
                IN  IF x = "RetrieveError" THEN { Outcome(c, Redirect(cookies, RootURL), Store) }
                    ELSE IF x # "ok"
                    THEN { Errored(c, handleError(cookies, x, StatusInternalServerError,
                                       "Failed to exchange authorization code"), Store) }
                    ELSE IdentityStep(req, c, cookies)
                : x \in ExchangeOutcomes }

\* the state tokens rand.Read and base64.URLEncoding can yield (never empty)
IssuedStates == {"s1", "s2"}

\* a request without the cookie let through (no cookie, nothing to compare)
CheckStateCookieAbsentOk(req) ==
    IF req.cookie # NoCookie /\ req.cookie # req.state
    THEN { Outcome(<<>>, Redirect(<<>>, RootURL), Store) }
    ELSE ExchangeStep(req)

\* a mismatch answered with an error instead of a restart of the flow
CheckStateCookieStrict(req) ==
    IF req.cookie = NoCookie
    THEN { Errored(<<>>, handleError(<<>>, "http: named cookie not present",
                                     StatusBadRequest, "State cookie not found"), Store) }
    ELSE IF req.cookie # req.state
    THEN { Errored(<<>>, handleError(<<>>, "state mismatch",
                                     StatusBadRequest, "State mismatch"), Store) }
    ELSE ExchangeStep(req)

\* the cookie removed before it is compared
CheckStateCookieClearing(req) ==
    IF req.cookie = NoCookie
    THEN { Errored(<<>>, handleError(<<>>, "http: named cookie not present",
                                     StatusBadRequest, "State cookie not found"), Store) }
    ELSE IF req.cookie # req.state
    THEN { Outcome(<<[op |-> "SetCookie", cookie |-> ClearedCookie]>>,
                   Redirect(<<ClearedCookie>>, RootURL), Store) }
    ELSE ExchangeStep(req)

\* only a value the server generated passes, as if the server kept what it issued
CheckStateCookieIssuedOnly(req) ==
    IF req.cookie = NoCookie
    THEN { Errored(<<>>, handleError(<<>>, "http: named cookie not present",
                                     StatusBadRequest, "State cookie not found"), Store) }
    ELSE IF req.cookie # req.state \/ req.state \notin IssuedStates
    THEN { Outcome(<<>>, Redirect(<<>>, RootURL), Store) }
    ELSE ExchangeStep(req)

\* the state cookie retrieved and compared with the state parameter
CheckStateCookie(req) ==
    IF req.cookie = NoCookie
    THEN { Errored(<<>>, handleError(<<>>, "http: named cookie not present",
                                     StatusBadRequest, "State cookie not found"), Store) }
    ELSE IF req.cookie # req.state
    THEN { Outcome(<<>>, Redirect(<<>>, RootURL), Store) }
    ELSE ExchangeStep(req)

\* the test of the state parameter left out
HandleOAuthCallbackNoStateCheck(req) ==
    IF req.code = ""
    THEN { Errored(<<>>, handleError(<<>>, "no authorization code provided", StatusBadRequest,
                                      "Authorization code is required"), Store) }
    ELSE CheckStateCookie(req)

HandleOAuthCallback(req) ==
    IF req.code = ""
    THEN { Errored(<<>>, handleError(<<>>, "no authorization code provided", StatusBadRequest,
                                      "Authorization code is required"), Store) }
    ELSE IF req.state = ""
    THEN { Errored(<<>>, handleError(<<>>, "no state provided", StatusBadRequest,
                                      "State parameter is required"), Store) }
    ELSE CheckStateCookie(req)

-----------------------------------------------------------------------------
(* Handler: GET / *)

\* the cookie never marked Secure
generateStateOauthCookieInsecure(req) ==
    { [err |-> "rand", state |-> "", cookies |-> <<>>] }
    \cup
    { [err |-> "nil", state |-> state,
       cookies |-> <<[Name |-> "oauthstate", Value |-> state, Path |-> "/", MaxAge |-> 0,
                      HttpOnly |-> TRUE, Secure |-> FALSE, SameSite |-> "Lax"]>>]
      : state \in IssuedStates }

\* the results of generateStateOauthCookie: the state and the cookie it set, or an
\* error of rand.Read
generateStateOauthCookie(req) ==
    { [err |-> "rand", state |-> "", cookies |-> <<>>] }
    \cup
    { [err |-> "nil", state |-> state,
       cookies |-> <<[Name |-> "oauthstate", Value |-> state, Path |-> "/", MaxAge |-> 0,
                      HttpOnly |-> TRUE, Secure |-> req.tls, SameSite |-> "Lax"]>>]
      : state \in IssuedStates }

HandleRoot(req) ==
    { IF g.err # "nil"
      THEN Errored(<<>>, handleError(g.cookies, g.err, StatusInternalServerError,
                                      "Failed to generate OAuth state"), Store)
      ELSE Outcome(<<[op |-> "SetCookie", cookie |-> g.cookies[1]]>>,
                   Redirect(g.cookies, AuthCodeURL(g.state)), Store)
      : g \in generateStateOauthCookie(req) }

-----------------------------------------------------------------------------
(* Handler: /revoke *)

\* the cleanup offered only to a browser in a sign-in flow
HandleRevokeInFlowOnly(req) ==
    IF req.cookie = NoCookie
    THEN {Outcome(<<>>, Redirect(<<>>, RootURL), Store)}
    ELSE { LET r == CleanupAPIKey(Store, defaultProjectName, api)
               c == <<[op |-> "CleanupAPIKey", projectName |-> defaultProjectName,
                       err |-> r.err, calls |-> r.calls]>>
           IN  IF r.err # "nil"
               THEN Errored(c, handleError(<<>>, r.err, StatusInternalServerError,
                                           "Failed to cleanup API keys"), r.st)
               ELSE Outcome(c, Response(StatusOK, NoLocation,
                                        "API key cleanup completed successfully.", <<>>), r.st)
           : api \in CleanupOutcomes }


HandleRevoke(req) ==
    { LET r == CleanupAPIKey(Store, defaultProjectName, api)
          c == <<[op |-> "CleanupAPIKey", projectName |-> defaultProjectName,
                  err |-> r.err, calls |-> r.calls]>>
      IN  IF r.err # "nil"
          THEN Errored(c, handleError(<<>>, r.err, StatusInternalServerError,
                                      "Failed to cleanup API keys"), r.st)
          ELSE Outcome(c, Response(StatusOK, NoLocation,
                                   "API key cleanup completed successfully.", <<>>), r.st)
      : api \in CleanupOutcomes }

-----------------------------------------------------------------------------
(* The browser session and the system's steps *)

\* the browser's oauthstate cookie after the Set-Cookie headers of a response, in order:
\* a negative MaxAge deletes the cookie
RECURSIVE StoreCookies(_, _)
StoreCookies(cookie, cookies) ==
    IF cookies = <<>> THEN cookie
    ELSE LET c == Head(cookies)
         IN  StoreCookies(IF c.Name # "oauthstate" THEN cookie
                          ELSE IF c.MaxAge < 0 THEN NoCookie
                          ELSE c.Value,
                          Tail(cookies))

\* what the callback URL may carry
Codes == {"", "c"}
States == {""} \cup IssuedStates

Init ==
    /\ allowedUsers = {}
    /\ allowedDomains = {<<"d">>}
    /\ oidcCall = NoCall
    /\ jar = NoCookie
    /\ projects \in {<<>>, <<[ID |-> <<"proj", 0>>, Name |-> defaultProjectName]>>}
    /\ accounts = <<>>
    /\ nextId = 1
    /\ now = 0
    /\ last = NoRequest
    /\ mgmtCall = NoCall
    /\ clientCall = NoCall
    /\ task = NoTask
    /\ goroutines = NoGoroutines

\* the allow-list extended by each principal a request admitted
FieldsCachingAdmitted(out) ==
    [allowedUsers |-> allowedUsers \cup
                        {out.calls[i].serviceAccountName :
                            i \in {j \in 1..Len(out.calls) : out.calls[j].op = "CreateAPIKey"}},
     allowedDomains |-> allowedDomains]

\* the fields the handlers, the manager, the resource client and the verifier share
\* across requests, after a request: no method assigns a field of its receiver, so the
\* allow-lists are as NewOIDC received them
Fields(out) == [allowedUsers |-> allowedUsers, allowedDomains |-> allowedDomains]

Handled(handler, req, out) ==
    /\ allowedUsers' = Fields(out).allowedUsers
    /\ allowedDomains' = Fields(out).allowedDomains
    /\ last' = [handler |-> handler, req |-> req, calls |-> out.calls, resp |-> out.resp,
                log |-> out.log]
    /\ jar' = StoreCookies(jar, out.resp.cookies)
    /\ projects' = out.st.projects
    /\ accounts' = out.st.accounts
    /\ nextId' = out.st.nextId

\* the browser requests GET /
Root ==
    /\ \E tls \in BOOLEAN :
         LET req == [tls |-> tls, cookie |-> jar]
         IN  \E out \in HandleRoot(req) : Handled("HandleRoot", req, out)
    /\ UNCHANGED <<oidcCall, now, mgmtCall, clientCall, task, goroutines>>

\* the browser requests GET /oauth2/callback, with the cookie it holds
Callback ==
    /\ \E code \in Codes, state \in States :
         LET req == [code |-> code, state |-> state, cookie |-> jar]
         IN  \E out \in HandleOAuthCallback(req) :
                /\ Len(out.st.accounts) <= MaxAccounts
                /\ Handled("HandleOAuthCallback", req, out)
    /\ UNCHANGED <<oidcCall, now, mgmtCall, clientCall, task, goroutines>>

\* anyone requests /revoke; a browser sends the cookie it holds
Revoke ==
    /\ LET req == [path |-> "/revoke", cookie |-> jar]
       IN  \E out \in HandleRevoke(req) : Handled("HandleRevoke", req, out)
    /\ UNCHANGED <<oidcCall, now, mgmtCall, clientCall, task, goroutines>>

\* a second passes
Tick ==
    /\ now < MaxTime
    /\ now' = now + 1
    /\ UNCHANGED <<allowedUsers, allowedDomains, oidcCall, jar, projects, accounts, nextId, last,
                   mgmtCall, clientCall, task, goroutines>>

Next == Root \/ Callback \/ Revoke \/ Tick

Spec == Init /\ [][Next]_vars

-----------------------------------------------------------------------------
(* The OIDC component called on its own, as its unit tests call it: one call per  *)
(* configuration and input                                                         *)

Emails == StringsUpTo(MaxEmailLen)

InitOIDC ==
    /\ allowedUsers \in SUBSET UserPool
    /\ allowedDomains \in SUBSET DomainPool
    /\ oidcCall = NoCall
    /\ jar = NoCookie
    /\ projects = <<>>
    /\ accounts = <<>>
    /\ nextId = 1
    /\ now = 0
    /\ last = NoRequest
    /\ mgmtCall = NoCall
    /\ clientCall = NoCall
    /\ task = NoTask
    /\ goroutines = NoGoroutines

CallIsUserAllowed ==
    /\ oidcCall = NoCall
    /\ \E email \in Emails, hd \in HdPool :
          oidcCall' = [op |-> "isUserAllowed", email |-> email, hd |-> hd,
                       allowed |-> isUserAllowed(email, hd)]
    /\ UNCHANGED <<allowedUsers, allowedDomains, jar, projects, accounts, nextId, now, last,
                   mgmtCall, clientCall, task, goroutines>>

CallExtractGoogleIDToken ==
    /\ oidcCall = NoCall
    /\ \E v \in VerifyFailed \cup VerifiedClaims(Emails) :
          oidcCall' = [op |-> "ExtractGoogleIDToken", v |-> v,
                       result |-> ExtractGoogleIDToken(v)]
    /\ UNCHANGED <<allowedUsers, allowedDomains, jar, projects, accounts, nextId, now, last,
                   mgmtCall, clientCall, task, goroutines>>

NextOIDC == CallIsUserAllowed \/ CallExtractGoogleIDToken

SpecOIDC == InitOIDC /\ [][NextOIDC]_vars

-----------------------------------------------------------------------------
(* The Management component called on its own, as its unit tests call it: one call *)
(* per content of the resource API and time of the call                            *)

Tenants == {defaultProjectName, "other"}
Principal == <<"u", "@", "d">>

ProjectPersonal == [ID |-> <<"proj", 0>>, Name |-> defaultProjectName]
ProjectOther == [ID |-> <<"proj", -1>>, Name |-> "other"]

\* the listings of at most MaxAccounts service accounts the projects ps may hold at
\* time t, each account created at or before t
AccountsOf(ps, t) ==
    UNION { { [i \in 1..n |-> [ID |-> <<"sa", i>>, Project |-> f[i].Project,
                               Name |-> Principal, CreatedAt |-> f[i].CreatedAt,
                               Value |-> <<"sk", i>>]]
              : f \in [1..n -> [Project : {ps[j].ID : j \in 1..Len(ps)},
                                CreatedAt : 0..t]] }
            : n \in 0..MaxAccounts }

InitManagement ==
    /\ allowedUsers = {}
    /\ allowedDomains = {<<"d">>}
    /\ oidcCall = NoCall
    /\ jar = NoCookie
    /\ now \in 0..MaxTime
    /\ projects \in {<<>>, <<ProjectPersonal>>, <<ProjectOther>>,
                      <<ProjectOther, ProjectPersonal>>}
    /\ accounts \in AccountsOf(projects, now)
    /\ nextId = Len(accounts) + 1
    /\ last = NoRequest
    /\ mgmtCall = NoCall
    /\ clientCall = NoCall
    /\ task = NoTask
    /\ goroutines = NoGoroutines

\* what a call left in mgmtCall: its arguments, the resource API's content and the
\* clock it found, the requests it made and what it returned
Called(op, projectName, serviceAccountName, r, result) ==
    /\ mgmtCall' = [op |-> op, projectName |-> projectName,
                    serviceAccountName |-> serviceAccountName, before |-> Store,
                    at |-> now, calls |-> r.calls, result |-> result]
    /\ projects' = r.st.projects
    /\ accounts' = r.st.accounts
    /\ nextId' = r.st.nextId

CallCreateAPIKey ==
    /\ mgmtCall = NoCall
    /\ \E projectName \in Tenants, api \in ApiOutcomes :
          LET r == CreateAPIKey(Store, projectName, Principal, api)
          IN  Called("CreateAPIKey", projectName, Principal, r,
                     [key |-> r.key, expiration |-> r.expiration, err |-> r.err])
    /\ UNCHANGED <<allowedUsers, allowedDomains, oidcCall, jar, now, last, clientCall, task,
                   goroutines>>

CallCleanupAPIKey ==
    /\ mgmtCall = NoCall
    /\ \E projectName \in Tenants, api \in CleanupOutcomes :
          LET r == CleanupAPIKey(Store, projectName, api)
          IN  Called("CleanupAPIKey", projectName, <<>>, r, [err |-> r.err])
    /\ UNCHANGED <<allowedUsers, allowedDomains, oidcCall, jar, now, last, clientCall, task,
                   goroutines>>

NextManagement == CallCreateAPIKey \/ CallCleanupAPIKey

SpecManagement == InitManagement /\ [][NextManagement]_vars

-----------------------------------------------------------------------------
(* The resource client called on its own, as its unit tests call it: one call per *)
(* script of the server's replies                                                 *)

InitClient ==
    /\ allowedUsers = {}
    /\ allowedDomains = {}
    /\ oidcCall = NoCall
    /\ jar = NoCookie
    /\ projects = <<>>
    /\ accounts = <<>>
    /\ nextId = 1
    /\ now = 0
    /\ last = NoRequest
    /\ mgmtCall = NoCall
    /\ clientCall = NoCall
    /\ task = NoTask
    /\ goroutines = NoGoroutines

\* what a call left in clientCall: its arguments and its result, which holds the
\* requests sent and the replies received
ClientCalled(op, arg, result) ==
    /\ clientCall' = [op |-> op, arg |-> arg, result |-> result]
    /\ UNCHANGED <<allowedUsers, allowedDomains, oidcCall, jar, projects, accounts, nextId, now,
                   last, mgmtCall, task, goroutines>>

CallDoRequest ==
    /\ clientCall = NoCall
    /\ \E method \in {"GET", "POST", "DELETE"}, reply \in Replies :
          LET req == [method |-> method, path |-> "/projects", query |-> Query("", 0)]
          IN  ClientCalled("doRequest", [req |-> req, reply |-> reply], doRequest(req, reply))

CallListServiceAccounts ==
    /\ clientCall = NoCall
    /\ \E r \in ListServiceAccountsPaged("p") :
          ClientCalled("ListServiceAccounts", [projectID |-> "p"], r)

CallListProjects ==
    /\ clientCall = NoCall
    /\ \E r \in listProjects(FALSE) :
          ClientCalled("listProjects", [includeArchived |-> FALSE], r)

CallGetProject ==
    /\ clientCall = NoCall
    /\ \E projectName \in Tenants :
          \E r \in GetProjectPaged(projectName) :
             ClientCalled("GetProject", [projectName |-> projectName], r)

NextClient == CallDoRequest \/ CallListServiceAccounts \/ CallListProjects \/ CallGetProject

SpecClient == InitClient /\ [][NextClient]_vars

-----------------------------------------------------------------------------
(* The server: the periodic cleanup task beside the request handlers.  The task  *)
(* is one goroutine: pc is its position, tick tells whether the ticker's channel *)
(* (of capacity one) holds a tick, running counts its sweeps in progress, err is *)
(* the result of its last sweep.                                                 *)

TaskStarted == [pc |-> "start", tick |-> FALSE, running |-> 0, err |-> "none"]

\* the immediate sweep at startup begins
OnStartup(t) == [t EXCEPT !.pc = "sweeping", !.running = @ + 1]

\* the sweep of a tick run in a goroutine of its own
OnTickSpawn(t) == [t EXCEPT !.tick = FALSE, !.running = @ + 1]

\* case <-ticker.C: the tick is taken from the channel and its sweep begins
OnTick(t) == [t EXCEPT !.tick = FALSE, !.pc = "sweeping", !.running = @ + 1]

\* the routine returning after its first sweep
AfterSweepReturn(t, err) == [t EXCEPT !.pc = "done", !.running = @ - 1, !.err = err]

\* the sweep returned: its error is logged and the routine is at the select again
AfterSweep(t, err) == [t EXCEPT !.pc = "select", !.running = @ - 1, !.err = err]

\* the server starts at second 1, over a resource API that holds service accounts
\* created at or before that second
InitServer ==
    /\ allowedUsers = {}
    /\ allowedDomains = {<<"d">>}
    /\ oidcCall = NoCall
    /\ jar = NoCookie
    /\ now = 1
    /\ projects \in {<<>>, <<ProjectPersonal>>}
    /\ accounts \in AccountsOf(projects, now)
    /\ nextId = Len(accounts) + 1
    /\ last = NoRequest
    /\ mgmtCall = NoCall
    /\ clientCall = NoCall
    /\ task = TaskStarted
    /\ goroutines = NoGoroutines

\* go s.startCleanupRoutine(): the task begins its first sweep without waiting for a tick
TaskStartup ==
    /\ task.pc = "start"
    /\ task' = OnStartup(task)
    /\ UNCHANGED <<allowedUsers, allowedDomains, oidcCall, jar, projects, accounts, nextId, now,
                   last, mgmtCall, clientCall, goroutines>>

\* the ticker fires: the tick waits in the channel; a tick that finds the channel full
\* is dropped
TimerFires ==
    /\ task.pc # "none"
    /\ ~task.tick
    /\ task' = [task EXCEPT !.tick = TRUE]
    /\ UNCHANGED <<allowedUsers, allowedDomains, oidcCall, jar, projects, accounts, nextId, now,
                   last, mgmtCall, clientCall, goroutines>>

\* the task, waiting at the select, receives the tick
TaskTick ==
    /\ task.pc = "select"
    /\ task.tick
    /\ task' = OnTick(task)
    /\ UNCHANGED <<allowedUsers, allowedDomains, oidcCall, jar, projects, accounts, nextId, now,
                   last, mgmtCall, clientCall, goroutines>>

\* which of the requests of a sweep of the task fail: none, the lookup, the listing,
\* or the first delete, each by a transport failure
TaskOutcomes ==
    { api \in CleanupOutcomes :
        /\ {api.GetProject, api.ListServiceAccounts, api.DeleteServiceAccount[1]}
              \subseteq {"nil", "execute http request: timeout"}
        /\ \A i \in 2..MaxAccounts : api.DeleteServiceAccount[i] = "nil" }

\* a sweep of the task runs CleanupAPIKey for the default project and returns
TaskSweep ==
    /\ task.running > 0
    /\ \E api \in TaskOutcomes :
          LET r == CleanupAPIKey(Store, defaultProjectName, api)
          IN  /\ task' = AfterSweep(task, r.err)
              /\ projects' = r.st.projects
              /\ accounts' = r.st.accounts
              /\ nextId' = r.st.nextId
    /\ UNCHANGED <<allowedUsers, allowedDomains, oidcCall, jar, now, last, mgmtCall, clientCall,
                   goroutines>>

NextServer == TaskStartup \/ TimerFires \/ TaskTick \/ TaskSweep \/ Revoke \/ Tick

SpecServer == InitServer /\ [][NextServer]_vars

\* the ticker keeps firing and the task's goroutine keeps being scheduled
SpecServerFair ==
    /\ SpecServer
    /\ WF_vars(TimerFires)
    /\ WF_vars(TaskStartup)
    /\ WF_vars(TaskTick)
    /\ WF_vars(TaskSweep)

-----------------------------------------------------------------------------
-----------------------------------------------------------------------------
(* Concurrent calls of the Management component.  net/http runs each request's  *)
(* handler in a goroutine of its own and the periodic task runs in another, so   *)
(* calls of CreateAPIKey and CleanupAPIKey interleave between their requests to  *)
(* the resource API, and the clock advances between them.  A goroutine g is the  *)
(* call it runs: pc is the request it makes next, the other fields are the       *)
(* call's local variables.  Two fields of a sweep are bookkeeping for the        *)
(* properties: began is the next ID of the resource API when the sweep made its  *)
(* first request, deleted the accounts it deleted and when.                      *)

Issuers == {"callback1", "callback2"}
Sweepers == {"task", "revoke"}

\* a request of a concurrent call succeeds or fails in transport
ApiFaults == {"nil", "execute http request: timeout"}

IssueCalled ==
    [call |-> "CreateAPIKey", pc |-> "GetProject", project |-> NoProject.ID,
     account |-> NoAccount, expiration |-> NoTime, err |-> "nil"]

SweepCalled ==
    [call |-> "CleanupAPIKey", pc |-> "GetProject", project |-> NoProject.ID,
     listed |-> <<>>, i |-> 0, err |-> "nil", began |-> 0, deleted |-> {}]

Returns(g, err) == [g EXCEPT !.pc = "returned", !.err = err]

\* one step of CreateAPIKey(ctx, projectName, serviceAccountName): the request at g.pc
\* with the result fail, or the reading of the clock that follows the last request
CreateAPIKeyStep(g, st, projectName, serviceAccountName, fail) ==
    CASE g.pc = "GetProject" ->
           LET got == GetProject(st, projectName, fail)
           IN  [st |-> st,
                g |-> IF got.err # "nil" THEN Returns(g, "get project: " \o got.err)
                      ELSE IF got.found
                      THEN [g EXCEPT !.pc = "CreateServiceAccount", !.project = got.project.ID]
                      ELSE [g EXCEPT !.pc = "CreateProject"]]
      [] g.pc = "CreateProject" ->
           LET made == CreateProject(st, projectName, fail)
           IN  [st |-> made.st,
                g |-> IF made.err # "nil" THEN Returns(g, "create project: " \o made.err)
                      ELSE [g EXCEPT !.pc = "CreateServiceAccount",
                                     !.project = made.project.ID]]
      [] g.pc = "CreateServiceAccount" ->
           LET sa == CreateServiceAccount(st, g.project, serviceAccountName, fail)
           IN  [st |-> sa.st,
                g |-> IF sa.err # "nil"
                      THEN Returns(g, "create service account: " \o sa.err)
                      ELSE [g EXCEPT !.pc = "Now", !.account = sa.account]]
      [] g.pc = "Now" ->
           [st |-> st, g |-> [Returns(g, "nil") EXCEPT !.expiration = <<now + Expiration>>]]

\* the iteration that takes the API's not-found answer for a successful delete
RangeStepTolerant(g, st, fail) ==
    IF g.i > Len(g.listed) THEN [st |-> st, g |-> Returns(g, "nil")]
    ELSE IF ~IsStale(g.listed[g.i], now) THEN [st |-> st, g |-> [g EXCEPT !.i = @ + 1]]
    ELSE LET d == DeleteServiceAccount(st, g.project, g.listed[g.i].ID, fail)
             gone == \A k \in 1..Len(st.accounts) : st.accounts[k].ID # g.listed[g.i].ID
         IN  [st |-> d.st,
              g |-> IF d.err # "nil" /\ ~(fail = "nil" /\ gone)
                    THEN Returns(g, "delete service account: " \o d.err)
                    ELSE [g EXCEPT !.i = @ + 1,
                                   !.deleted = IF gone THEN @
                                               ELSE @ \cup {[id |-> g.listed[g.i].ID,
                                                             at |-> now]}]]

\* the iteration whose cutoff is the clock itself, without the expiration
RangeStepNoGrace(g, st, fail) ==
    IF g.i > Len(g.listed) THEN [st |-> st, g |-> Returns(g, "nil")]
    ELSE IF ~(g.listed[g.i].CreatedAt < now) THEN [st |-> st, g |-> [g EXCEPT !.i = @ + 1]]
    ELSE LET d == DeleteServiceAccount(st, g.project, g.listed[g.i].ID, fail)
         IN  [st |-> d.st,
              g |-> IF d.err # "nil"
                    THEN Returns(g, "delete service account: " \o d.err)
                    ELSE [g EXCEPT !.i = @ + 1,
                                   !.deleted = @ \cup {[id |-> g.listed[g.i].ID, at |-> now]}]]

\* one iteration of `for _, serviceAccount := range *serviceAccounts`, or the return
\* after the last one: the cutoff is computed from the clock as the iteration finds
\* it, and the delete request is sent for an account created before it
RangeStep(g, st, fail) ==
    IF g.i > Len(g.listed) THEN [st |-> st, g |-> Returns(g, "nil")]
    ELSE IF ~IsStale(g.listed[g.i], now) THEN [st |-> st, g |-> [g EXCEPT !.i = @ + 1]]
    ELSE LET d == DeleteServiceAccount(st, g.project, g.listed[g.i].ID, fail)
         IN  [st |-> d.st,
              g |-> IF d.err # "nil"
                    THEN Returns(g, "delete service account: " \o d.err)
                    ELSE [g EXCEPT !.i = @ + 1,
                                   !.deleted = @ \cup {[id |-> g.listed[g.i].ID, at |-> now]}]]

\* one step of CleanupAPIKey(ctx, projectName): the request at g.pc with the result
\* fail, or one iteration of the loop
CleanupAPIKeyStep(g, st, projectName, fail) ==
    CASE g.pc = "GetProject" ->
           LET got == GetProject(st, projectName, fail)
               b == [g EXCEPT !.began = st.nextId]
           IN  [st |-> st,
                g |-> IF got.err # "nil" THEN Returns(b, "get project: " \o got.err)
                      ELSE IF ~got.found THEN Returns(b, "find project " \o projectName)
                      ELSE [b EXCEPT !.pc = "ListServiceAccounts",
                                     !.project = got.project.ID]]
      [] g.pc = "ListServiceAccounts" ->
           LET ls == ListServiceAccounts(st, g.project, fail)
           IN  [st |-> st,
                g |-> IF ls.err # "nil" THEN Returns(g, "list service accounts: " \o ls.err)
                      ELSE [g EXCEPT !.pc = "range", !.listed = ls.accounts, !.i = 1]]
      [] g.pc = "range" -> RangeStep(g, st, fail)

\* two callbacks that passed authorization and the periodic task are about to call
\* the manager, over a resource API that holds no service account yet
InitConcurrent ==
    /\ allowedUsers = {}
    /\ allowedDomains = {<<"d">>}
    /\ oidcCall = NoCall
    /\ jar = NoCookie
    /\ now = 0
    /\ projects \in {<<>>, <<ProjectPersonal>>}
    /\ accounts = <<>>
    /\ nextId = 1
    /\ last = NoRequest
    /\ mgmtCall = NoCall
    /\ clientCall = NoCall
    /\ task = NoTask
    /\ goroutines = [n \in Issuers \cup {"task"} |->
                        IF n \in Issuers THEN IssueCalled ELSE SweepCalled]

Stepped(n, r) ==
    /\ goroutines' = [goroutines EXCEPT ![n] = r.g]
    /\ projects' = r.st.projects
    /\ accounts' = r.st.accounts
    /\ nextId' = r.st.nextId

\* a callback's goroutine takes the next step of its CreateAPIKey call
IssueRuns ==
    /\ \E n \in Issuers, fail \in ApiFaults :
          /\ goroutines[n].pc # "returned"
          /\ Stepped(n, CreateAPIKeyStep(goroutines[n], Store, defaultProjectName,
                                         Principal, fail))
    /\ UNCHANGED <<allowedUsers, allowedDomains, oidcCall, jar, now, last, mgmtCall, clientCall,
                   task>>

\* the periodic task's or a /revoke request's goroutine takes the next step of its
\* CleanupAPIKey call
SweepRuns ==
    /\ \E n \in Sweepers \cap DOMAIN goroutines, fail \in ApiFaults :
          /\ goroutines[n].pc # "returned"
          /\ Stepped(n, CleanupAPIKeyStep(goroutines[n], Store, defaultProjectName, fail))
    /\ UNCHANGED <<allowedUsers, allowedDomains, oidcCall, jar, now, last, mgmtCall, clientCall,
                   task>>

NextConcurrent == IssueRuns \/ SweepRuns \/ Tick

SpecConcurrent == InitConcurrent /\ [][NextConcurrent]_vars

\* the periodic task and a /revoke request are about to sweep the default project,
\* which holds service accounts created at second 0
InitSweeps ==
    /\ allowedUsers = {}
    /\ allowedDomains = {<<"d">>}
    /\ oidcCall = NoCall
    /\ jar = NoCookie
    /\ now = 0
    /\ projects = <<ProjectPersonal>>
    /\ accounts \in AccountsOf(projects, now)
    /\ nextId = Len(accounts) + 1
    /\ last = NoRequest
    /\ mgmtCall = NoCall
    /\ clientCall = NoCall
    /\ task = NoTask
    /\ goroutines = [n \in Sweepers |-> SweepCalled]

NextSweeps == SweepRuns \/ Tick

SpecSweeps == InitSweeps /\ [][NextSweeps]_vars

-----------------------------------------------------------------------------
(* A listing of the resource client run request by request.  The goroutine g of  *)
(* the call holds the loop's variables: after, the cursor of the next request,   *)
(* and all, the items appended so far.  For the properties it also keeps sent,   *)
(* the cursor of the last request, and reply, the reply to it.                   *)

MaxListed == 2       \* the server holds at most this many items to list

NoReply == [transport |-> "none", StatusCode |-> 0, Body |-> NoBody]

ListCalled(op) ==
    [call |-> op, pc |-> "request", after |-> "", all |-> <<>>, err |-> NoError,
     sent |-> "", reply |-> NoReply]

\* the pages the server may answer a request of the loop with: any has_more with any
\* last_id, the empty one and one already sent included
LoopPages ==
    [Data : {<<>>, <<Item("a")>>, <<Item("b")>>}, HasMore : BOOLEAN, LastID : {""} \cup Cursors]

\* the replies to a request of a listing that has n items already: a transport
\* failure, an error status, a body that is not JSON, or a page within what the
\* server holds
LoopReplies(n) ==
    {TransportFailed}
        \cup {[transport |-> "nil", StatusCode |-> 500,
               Body |-> [json |-> FALSE, text |-> "Bad Request", doc |-> NoPage]],
              [transport |-> "nil", StatusCode |-> 200,
               Body |-> [json |-> FALSE, text |-> "Bad Request", doc |-> NoPage]]}
        \cup {[transport |-> "nil", StatusCode |-> 200,
               Body |-> [json |-> TRUE, text |-> "", doc |-> p]] :
                 p \in {q \in LoopPages : n + Len(q.Data) <= MaxListed}}

\* the loop left as soon as a page brings no new cursor
ListStepUntilNoProgress(g, projectID, reply) ==
    LET resp == IF g.call = "ListServiceAccounts"
                THEN listServiceAccounts(projectID, g.after, pageSize, reply)
                ELSE listProject(g.after, pageSize, FALSE, reply)
        h == [g EXCEPT !.sent = g.after, !.reply = reply]
    IN  IF resp.err # NoError
        THEN [h EXCEPT !.pc = "returned", !.all = <<>>,
                       !.err = Wrap(IF g.call = "ListServiceAccounts"
                                    THEN "get service account list"
                                    ELSE "get project list", resp.err)]
        ELSE IF ~resp.page.HasMore \/ resp.page.LastID \in {"", g.after}
        THEN [h EXCEPT !.pc = "returned", !.all = @ \o resp.page.Data]
        ELSE [h EXCEPT !.all = @ \o resp.page.Data, !.after = resp.page.LastID]

\* one iteration of the `for` loop of ListServiceAccounts or of listProjects: the page
\* request with the cursor after, and what the loop does with its result
ListStep(g, projectID, reply) ==
    LET resp == IF g.call = "ListServiceAccounts"
                THEN listServiceAccounts(projectID, g.after, pageSize, reply)
                ELSE listProject(g.after, pageSize, FALSE, reply)
        h == [g EXCEPT !.sent = g.after, !.reply = reply]
    IN  IF resp.err # NoError
        THEN [h EXCEPT !.pc = "returned", !.all = <<>>,
                       !.err = Wrap(IF g.call = "ListServiceAccounts"
                                    THEN "get service account list"
                                    ELSE "get project list", resp.err)]
        ELSE IF ~resp.page.HasMore
        THEN [h EXCEPT !.pc = "returned", !.all = @ \o resp.page.Data]
        ELSE [h EXCEPT !.all = @ \o resp.page.Data, !.after = resp.page.LastID]

\* a call of ListServiceAccounts or of listProjects is about to send its first request
InitListing ==
    /\ allowedUsers = {}
    /\ allowedDomains = {<<"d">>}
    /\ oidcCall = NoCall
    /\ jar = NoCookie
    /\ now = 0
    /\ projects = <<>>
    /\ accounts = <<>>
    /\ nextId = 1
    /\ last = NoRequest
    /\ mgmtCall = NoCall
    /\ clientCall = NoCall
    /\ task = NoTask
    /\ \E op \in {"ListServiceAccounts", "listProjects"} :
          goroutines = [n \in {"lister"} |-> ListCalled(op)]

\* the call sends its next page request and receives the server's reply
ListRuns ==
    /\ goroutines["lister"].pc = "request"
    /\ \E reply \in LoopReplies(Len(goroutines["lister"].all)) :
          goroutines' = [goroutines EXCEPT !["lister"] = ListStep(@, "p", reply)]
    /\ UNCHANGED <<allowedUsers, allowedDomains, oidcCall, jar, projects, accounts, nextId, now,
                   last, mgmtCall, clientCall, task>>

NextListing == ListRuns

SpecListing == InitListing /\ [][NextListing]_vars

\* the goroutine of the call keeps running and every request is answered
SpecListingFair == SpecListing /\ WF_vars(ListRuns)

-----------------------------------------------------------------------------
(* The browser session that keeps going: the browser follows every redirect and  *)
(* the provider sends it back to the callback, so the requests for / and for the *)
(* callback keep coming and the server answers each of them.  The clock, which  *)
(* no step of the flow but the displayed expiry reads, stands still.             *)

NextSession == Root \/ Callback

SpecSession == Init /\ [][NextSession]_vars

SpecSessionFair == SpecSession /\ WF_vars(Root) /\ WF_vars(Callback)

\* a value no call of generateStateOauthCookie returned
ChosenState == "x"

\* a request of a client other than the browser: the browser's cookie is not touched
HandledElsewhere(handler, req, out) ==
    /\ allowedUsers' = Fields(out).allowedUsers
    /\ allowedDomains' = Fields(out).allowedDomains
    /\ last' = [handler |-> handler, req |-> req, calls |-> out.calls, resp |-> out.resp,
                log |-> out.log]
    /\ jar' = jar
    /\ projects' = out.st.projects
    /\ accounts' = out.st.accounts
    /\ nextId' = out.st.nextId

\* a client that writes its own Cookie header requests the callback with a cookie value
\* of its choice, and a state parameter equal to it or to a value the server issued
CallbackChosen ==
    /\ \E code \in Codes, state \in {ChosenState} \cup IssuedStates :
         LET req == [code |-> code, state |-> state, cookie |-> ChosenState]
         IN  \E out \in HandleOAuthCallback(req) :
                /\ Len(out.st.accounts) <= MaxAccounts
                /\ HandledElsewhere("HandleOAuthCallback", req, out)
    /\ UNCHANGED <<oidcCall, now, mgmtCall, clientCall, task, goroutines>>

\* the browser and the other client at the same server
NextChosen == Root \/ Callback \/ CallbackChosen

SpecChosen == Init /\ [][NextChosen]_vars

-----------------------------------------------------------------------------
(* The allow-list policy as the specification words it *)

\* the text after the last "@" of an email, empty when there is none
RECURSIVE DomainPart(_)
DomainPart(email) ==
    IF email = <<>> THEN <<>>
    ELSE IF email[Len(email)] = "@" THEN <<>>
    ELSE IF IndexFrom(email, "@", 1) = 0 THEN <<>>
    ELSE Append(DomainPart(SubSeq(email, 1, Len(email) - 1)), email[Len(email)])

AtSigns(email) == Cardinality({i \in 1..Len(email) : email[i] = "@"})

DomainRule(email, hd) ==
    /\ DomainPart(email) = hd
    /\ hd # <<>>
    /\ DomainPart(email) \in allowedDomains

PolicyAdmits(email, hd) ==
    \/ email \in allowedUsers
    \/ AtSigns(email) = 1 /\ DomainRule(email, hd)

\* C2 as stated: isUserAllowed returns true if and only if the email is in the explicit
\* user list, or its domain part equals hd, hd is non-empty and the domain is in the
\* allowed-domain list
C2_AsStated ==
    oidcCall.op = "isUserAllowed" =>
        (oidcCall.allowed <=>
            \/ oidcCall.email \in allowedUsers
            \/ DomainRule(oidcCall.email, oidcCall.hd))

\* C2 amended: isUserAllowed returns true if and only if the email is in the explicit
\* user list, or the email holds exactly one "@" and the part after it equals hd, is
\* non-empty and is in the allowed-domain list
C2_AllowedIffPolicy ==
    oidcCall.op = "isUserAllowed" =>
        (oidcCall.allowed <=> PolicyAdmits(oidcCall.email, oidcCall.hd))

\* an email outside the explicit list is admitted through the domain rule
C2_Witness ==
    /\ oidcCall.op = "isUserAllowed"
    /\ oidcCall.allowed
    /\ oidcCall.email \notin allowedUsers
    /\ oidcCall.email = <<"u", "@", "d">>

\* C3 as stated: a claim whose hd differs from the domain part of its email, or whose
\* domain part is empty, always fails the allow-list check
C3_AsStated ==
    (/\ oidcCall.op = "isUserAllowed"
     /\ \/ oidcCall.hd # DomainPart(oidcCall.email)
        \/ DomainPart(oidcCall.email) = <<>>)
    => ~oidcCall.allowed

\* C3 amended: a claim whose hd differs from the domain part of its email, or whose
\* domain part is empty, fails the allow-list check unless its email is in the explicit
\* user list, even if the email's textual domain is in the allowed-domain list
C3_HdMismatchFails ==
    (/\ oidcCall.op = "isUserAllowed"
     /\ oidcCall.email \notin allowedUsers
     /\ \/ oidcCall.hd # DomainPart(oidcCall.email)
        \/ DomainPart(oidcCall.email) = <<>>)
    => ~oidcCall.allowed

\* the textual domain is allow-listed, the hd claim names another domain: denied
C3_Witness ==
    /\ oidcCall.op = "isUserAllowed"
    /\ oidcCall.email = <<"u", "@", "d">>
    /\ oidcCall.email \notin allowedUsers
    /\ <<"d">> \in allowedDomains
    /\ oidcCall.hd = <<"u">>
    /\ ~oidcCall.allowed

\* C4: ExtractGoogleIDToken fails if verification fails; otherwise fails if
\* email_verified is false, whatever the allow-lists hold; otherwise fails if the
\* allow-list policy does not admit the claims; otherwise returns exactly the
\* configured default project name and the email of the claims, with no error
C4_ExtractOrder ==
    oidcCall.op = "ExtractGoogleIDToken" =>
        LET v == oidcCall.v
            r == oidcCall.result
        IN  IF ~v.ok THEN r = [NoIdentity EXCEPT !.err = "verify id token: " \o v.err]
            ELSE IF ~v.EmailVerified THEN r = [NoIdentity EXCEPT !.err = "verify email"]
            ELSE IF ~PolicyAdmits(v.Email, v.Hd)
                 THEN r = [NoIdentity EXCEPT !.err =
                              "user not allowed to access the service " \o Str(v.Email)]
            ELSE r = [err |-> "nil", projectName |-> defaultProjectName,
                      serviceAccountName |-> v.Email]

\* an explicitly listed email whose email_verified is false is refused
C4_Witness ==
    /\ oidcCall.op = "ExtractGoogleIDToken"
    /\ oidcCall.v.ok
    /\ ~oidcCall.v.EmailVerified
    /\ oidcCall.v.Email \in allowedUsers
    /\ oidcCall.result.err = "verify email"

-----------------------------------------------------------------------------
(* The callback flow: what the last handled request shows *)

IsCallback == last.handler = "HandleOAuthCallback"

\* the positions of the calls named op among the calls of a handled request
CallsOf(l, op) == {i \in 1..Len(l.calls) : l.calls[i].op = op}
Did(l, op) == CallsOf(l, op) # {}
TheCall(l, op) == l.calls[CHOOSE i \in CallsOf(l, op) : TRUE]

\* the state parameter matched the cookie: the handler went on to the code exchange
Matched(l) == l.handler = "HandleOAuthCallback" /\ Did(l, "Exchange")

IsRedirectToRoot(resp) ==
    /\ resp.status = StatusFound
    /\ resp.location = RootURL
    /\ resp.body = ""

Is4xx(resp) == resp.status \in 400..499 /\ resp.location = NoLocation
Is5xx(resp) == resp.status \in 500..599 /\ resp.location = NoLocation

\* a step of the system that handles a callback request
CallbackStep == now' = now /\ last'.handler = "HandleOAuthCallback"

\* C1: a handling of GET /oauth2/callback invokes CreateAPIKey at most once, and only
\* after code and state were present, the oauthstate cookie was present and equal to
\* the state parameter, the code exchange succeeded, the token response held an
\* id_token, the token verified, email_verified was true and the allow-list policy
\* admitted the email
C1_IssueOnlyAfterChecks ==
    IsCallback =>
        /\ Cardinality(CallsOf(last, "CreateAPIKey")) <= 1
        /\ Did(last, "CreateAPIKey") =>
             /\ last.req.code # ""
             /\ last.req.state # ""
             /\ last.req.cookie # NoCookie
             /\ last.req.cookie = last.req.state
             /\ \E i, j, k, m \in 1..Len(last.calls) :
                  /\ i < j /\ j < k /\ k < m
                  /\ last.calls[i].op = "Exchange" /\ last.calls[i].result = "ok"
                  /\ last.calls[j].op = "id_token" /\ last.calls[j].ok
                  /\ last.calls[k].op = "ExtractGoogleIDToken"
                  /\ last.calls[k].v.ok
                  /\ last.calls[k].v.EmailVerified
                  /\ PolicyAdmits(last.calls[k].v.Email, last.calls[k].v.Hd)
                  /\ last.calls[m].op = "CreateAPIKey"
                  /\ last.calls[m].serviceAccountName = last.calls[k].v.Email

\* a callback that issued a key and rendered it
C1_Witness ==
    /\ IsCallback
    /\ Did(last, "CreateAPIKey")
    /\ last.resp.status = StatusOK
    /\ last.resp.key # NoKey

\* C5 as stated: a callback (carrying a code and the cookie) whose state equals the
\* cookie proceeds to the token exchange; for any other state value the response is a
\* redirect to / and the token exchange is not invoked
C5_AsStated ==
    (IsCallback /\ last.req.code # "" /\ last.req.cookie # NoCookie) =>
        IF last.req.state = last.req.cookie
        THEN Did(last, "Exchange")
        ELSE IsRedirectToRoot(last.resp) /\ ~Did(last, "Exchange")

\* C5 amended: for a callback carrying a non-empty code and the oauthstate cookie: if
\* its state parameter equals the cookie value the flow proceeds to the token exchange;
\* for any other non-empty state value the response is a redirect to / and the token
\* exchange is not invoked; an empty or missing state is answered with a 400 error,
\* without redirect or token exchange
C5_StateRoundTrip ==
    (IsCallback /\ last.req.code # "" /\ last.req.cookie # NoCookie) =>
        IF last.req.state = last.req.cookie
        THEN Did(last, "Exchange")
        ELSE IF last.req.state # ""
        THEN IsRedirectToRoot(last.resp) /\ ~Did(last, "Exchange")
        ELSE Is4xx(last.resp) /\ ~Did(last, "Exchange")

\* a stale state value against the cookie of a later GET /
C5_Witness ==
    /\ IsCallback
    /\ last.req.code # ""
    /\ last.req.state = "s1"
    /\ last.req.cookie = "s2"
    /\ IsRedirectToRoot(last.resp)

\* C6 as stated: a callback with code and state present whose oauthstate cookie is
\* missing, or differs from the state parameter, is answered with a redirect to /,
\* clears no cookie and surfaces no error
C6_AsStated ==
    (/\ IsCallback /\ last.req.code # "" /\ last.req.state # ""
     /\ last.req.cookie = NoCookie \/ last.req.cookie # last.req.state)
    => /\ IsRedirectToRoot(last.resp)
       /\ last.resp.cookies = <<>>

\* C6 amended: a callback with code and state present whose oauthstate cookie value
\* differs from the state parameter is answered with a redirect to /, clears no cookie
\* and surfaces no error; one whose oauthstate cookie is missing is answered with a 400
\* error (State cookie not found), clears no cookie and is not redirected
C6_CookieMismatchOrMissing ==
    (/\ IsCallback /\ last.req.code # "" /\ last.req.state # ""
     /\ last.req.cookie = NoCookie \/ last.req.cookie # last.req.state)
    => /\ last.calls = <<>>
       /\ last.resp.cookies = <<>>
       /\ IF last.req.cookie = NoCookie
          THEN last.resp = handleError(<<>>, "http: named cookie not present",
                                             StatusBadRequest, "State cookie not found").resp
          ELSE IsRedirectToRoot(last.resp)

\* a callback that arrives without the cookie
C6_Witness ==
    /\ IsCallback
    /\ last.req.code # ""
    /\ last.req.state # ""
    /\ last.req.cookie = NoCookie
    /\ last.resp.status = StatusBadRequest

\* the response removes the oauthstate cookie
ClearsCookie(resp) ==
    \E i \in 1..Len(resp.cookies) :
        /\ resp.cookies[i].Name = "oauthstate"
        /\ resp.cookies[i].Value = ""
        /\ resp.cookies[i].MaxAge = -1
        /\ resp.cookies[i].Path = "/"

\* C7: when the callback's state matches the cookie, the oauthstate cookie is cleared
\* (empty value, MaxAge=-1) before the code exchange is attempted, whatever the later
\* steps yield, so the browser holds no cookie afterwards and the next callback it
\* sends (with no GET / in between) is not accepted, whatever state it carries
C7_CookieSingleUse ==
    /\ [](Matched(last) =>
            /\ ClearsCookie(last.resp)
            /\ last.calls[1].op = "SetCookie"
            /\ last.calls[1].cookie.MaxAge = -1
            /\ last.calls[2].op = "Exchange"
            /\ jar = NoCookie)
    /\ [][(Matched(last) /\ CallbackStep) => ~Matched(last')]_vars

\* a matched callback that went all the way and left the browser without the cookie
C7_Witness ==
    /\ Matched(last)
    /\ Did(last, "CreateAPIKey")
    /\ last.resp.status = StatusOK
    /\ ClearsCookie(last.resp)
    /\ jar = NoCookie

\* C8: a callback with an empty or missing code, or an empty or missing state, is
\* answered with a 400-class error and nothing else happens: no cookie is set or
\* cleared, no call is made (exchange, verification, issuance), no redirect, and the
\* browser's cookie and the resource API's state are as before
C8_MissingCodeOrState ==
    [][(CallbackStep /\ (last'.req.code = "" \/ last'.req.state = "")) =>
          /\ Is4xx(last'.resp)
          /\ last'.calls = <<>>
          /\ last'.resp.cookies = <<>>
          /\ last'.resp.key = NoKey
          /\ UNCHANGED <<jar, projects, accounts, nextId, goroutines>>]_vars

\* a callback with a code and the cookie, but no state
C8_Witness ==
    /\ IsCallback
    /\ last.req.code # ""
    /\ last.req.state = ""
    /\ last.req.cookie # NoCookie
    /\ last.resp.status = StatusBadRequest

\* C9: after a state match, an exchange the provider rejects (oauth2.RetrieveError) is
\* answered with a redirect to / and no error, any other exchange failure with a
\* 500-class error; neither verifies a token nor issues a key
C9_ExchangeFailure ==
    (Matched(last) /\ TheCall(last, "Exchange").result # "ok") =>
        /\ IF TheCall(last, "Exchange").result = "RetrieveError"
           THEN IsRedirectToRoot(last.resp)
           ELSE Is5xx(last.resp)
        /\ ~Did(last, "id_token")
        /\ ~Did(last, "ExtractGoogleIDToken")
        /\ ~Did(last, "CreateAPIKey")
        /\ last.resp.key = NoKey

\* the provider rejected the code: back to the start
C9_Witness ==
    /\ Matched(last)
    /\ TheCall(last, "Exchange").result = "RetrieveError"
    /\ IsRedirectToRoot(last.resp)

\* a failure after the code exchange succeeded
FailedAfterExchange(l) ==
    /\ Matched(l)
    /\ TheCall(l, "Exchange").result = "ok"
    /\ \/ ~TheCall(l, "id_token").ok
       \/ Did(l, "ExtractGoogleIDToken") /\ ~TheCall(l, "ExtractGoogleIDToken").v.ok
       \/ Did(l, "ExtractGoogleIDToken") /\ TheCall(l, "ExtractGoogleIDToken").v.ok
            /\ ~TheCall(l, "ExtractGoogleIDToken").v.EmailVerified
       \/ Did(l, "ExtractGoogleIDToken") /\ TheCall(l, "ExtractGoogleIDToken").v.ok
            /\ ~PolicyAdmits(TheCall(l, "ExtractGoogleIDToken").v.Email,
                             TheCall(l, "ExtractGoogleIDToken").v.Hd)
       \/ Did(l, "CreateAPIKey") /\ TheCall(l, "CreateAPIKey").err # "nil"

\* C10: every failure after a successful code exchange (no id_token, verification
\* failure, unverified email, allow-list denial, issuance failure) is answered with a
\* 500-class error, never with a redirect, and renders no credential
C10_LateFailuresFatal ==
    FailedAfterExchange(last) =>
        /\ Is5xx(last.resp)
        /\ ~IsRedirectToRoot(last.resp)
        /\ last.resp.key = NoKey
        /\ last.resp.expires = NoTime

\* a verified token of an identity the allow-lists do not admit
C10_Witness ==
    /\ Matched(last)
    /\ Did(last, "ExtractGoogleIDToken")
    /\ TheCall(last, "ExtractGoogleIDToken").err = "user not allowed to access the service d@u"
    /\ last.resp.status = StatusInternalServerError

-----------------------------------------------------------------------------
(* Error responses and the root handler *)

\* the step at which a handled request failed, "" if none did: what the request
\* lacked, or the call that returned an error - never which error
FailedStep(l) ==
    IF l.handler = "HandleRoot"
    THEN IF Did(l, "SetCookie") THEN "" ELSE "state generation"
    ELSE IF l.handler = "HandleRevoke"
    THEN IF TheCall(l, "CleanupAPIKey").err # "nil" THEN "cleanup" ELSE ""
    ELSE IF l.handler # "HandleOAuthCallback" THEN ""
    ELSE IF l.req.code = "" THEN "code"
    ELSE IF l.req.state = "" THEN "state"
    ELSE IF l.req.cookie = NoCookie THEN "cookie"
    ELSE IF ~Did(l, "Exchange") THEN ""
    ELSE IF TheCall(l, "Exchange").result = "error" THEN "exchange"
    ELSE IF TheCall(l, "Exchange").result # "ok" THEN ""
    ELSE IF ~TheCall(l, "id_token").ok THEN "id_token"
    ELSE IF TheCall(l, "ExtractGoogleIDToken").err # "nil" THEN "identity"
    ELSE IF TheCall(l, "CreateAPIKey").err # "nil" THEN "issue"
    ELSE ""

\* the status and message each handler answers a failure of each step with
OpaqueErrors ==
    [handler |-> "HandleRoot", step |-> "state generation"]
        :> <<500, "Failed to generate OAuth state">>
    @@ [handler |-> "HandleRevoke", step |-> "cleanup"] :> <<500, "Failed to cleanup API keys">>
    @@ [handler |-> "HandleOAuthCallback", step |-> "code"]
        :> <<400, "Authorization code is required">>
    @@ [handler |-> "HandleOAuthCallback", step |-> "state"]
        :> <<400, "State parameter is required">>
    @@ [handler |-> "HandleOAuthCallback", step |-> "cookie"]
        :> <<400, "State cookie not found">>
    @@ [handler |-> "HandleOAuthCallback", step |-> "exchange"]
        :> <<500, "Failed to exchange authorization code">>
    @@ [handler |-> "HandleOAuthCallback", step |-> "id_token"]
        :> <<500, "Invalid token response">>
    @@ [handler |-> "HandleOAuthCallback", step |-> "identity"]
        :> <<500, "Failed to verify ID token">>
    @@ [handler |-> "HandleOAuthCallback", step |-> "issue"]
        :> <<500, "Failed to create API key">>

\* C11: every error response of the handlers of /, /oauth2/callback and /revoke carries
\* a status and a body fixed by the handler and the step that failed, one of a fixed
\* set of messages, whatever the error value was (resource-API body, verification
\* error, user email): the error value goes to the log only, so two requests failing
\* at the same step receive the same status and body
C11_ErrorsOpaque ==
    /\ (last.handler # "none" /\ FailedStep(last) # "") =>
          LET at == [handler |-> last.handler, step |-> FailedStep(last)]
          IN  /\ at \in DOMAIN OpaqueErrors
              /\ <<last.resp.status, last.resp.body>> = OpaqueErrors[at]
              /\ last.resp.location = NoLocation
              /\ last.resp.key = NoKey
              /\ Len(last.log) = 1
              /\ last.resp.body # last.log[1].error
    /\ (last.handler # "none" /\ last.resp.status >= 400) => FailedStep(last) # ""

\* an issuance refused by the resource API: its answer is logged, not shown
C11_Witness ==
    /\ IsCallback
    /\ FailedStep(last) = "issue"
    /\ last.log[1].error = "create service account: create service account: "
                              \o "receive api response: invalid key (status code: 401)"
    /\ last.resp.status = StatusInternalServerError
    /\ last.resp.body = "Failed to create API key"

\* C12: every successful GET / sets exactly one cookie, oauthstate (Path=/, HttpOnly,
\* SameSite=Lax, Secure if and only if the request came over TLS), whose value is the
\* non-empty state just generated, and redirects (302) to the consent URL whose state
\* parameter is that value; when the state cannot be generated the response is a 500
\* error, with no redirect and no cookie
C12_RootSetsStateCookie ==
    last.handler = "HandleRoot" =>
        IF last.resp.status = StatusFound
        THEN /\ Len(last.resp.cookies) = 1
             /\ LET cookie == last.resp.cookies[1]
                IN  /\ cookie.Name = "oauthstate"
                    /\ cookie.Path = "/"
                    /\ cookie.HttpOnly
                    /\ cookie.SameSite = "Lax"
                    /\ cookie.Secure <=> last.req.tls
                    /\ cookie.Value # ""
                    /\ cookie.Value \in IssuedStates
                    /\ cookie.MaxAge >= 0
                    /\ last.resp.location = AuthCodeURL(cookie.Value)
                    /\ jar = cookie.Value
             /\ last.log = <<>>
        ELSE /\ last.resp.status = StatusInternalServerError
             /\ last.resp.location = NoLocation
             /\ last.resp.cookies = <<>>
             /\ last.log # <<>>
             /\ jar = last.req.cookie

\* a GET / over TLS while the browser holds the cookie of an earlier one
C12_Witness ==
    /\ last.handler = "HandleRoot"
    /\ last.req.tls
    /\ last.req.cookie = "s1"
    /\ last.resp.status = StatusFound
    /\ last.resp.cookies[1].Secure
    /\ last.resp.cookies[1].Value = "s2"
    /\ last.resp.location = AuthCodeURL("s2")

-----------------------------------------------------------------------------
(* Issuance *)

IsIssue == mgmtCall.op = "CreateAPIKey"

\* the requests of the call that returned an error
FailedCalls(l) == {i \in 1..Len(l.calls) : l.calls[i].err # "nil"}

\* C13: CreateAPIKey first looks the tenant up with GetProject; it calls CreateProject
\* with the tenant name if and only if the lookup reports, without error, that there is
\* no such project; it then calls CreateServiceAccount exactly once, under the ID of the
\* project found or just created and with the principal name, and returns the secret
\* value of that service account
C13_IssueSteps ==
    IsIssue =>
        LET c == mgmtCall.calls
            exists == \E i \in 1..Len(mgmtCall.before.projects) :
                          mgmtCall.before.projects[i].Name = mgmtCall.projectName
            creates == CallsOf(mgmtCall, "CreateProject")
            inserts == CallsOf(mgmtCall, "CreateServiceAccount")
        IN  /\ Len(c) >= 1
            /\ CallsOf(mgmtCall, "GetProject") = {1}
            /\ c[1].name = mgmtCall.projectName
            /\ c[1].err = "nil" => (c[1].found <=> exists)
            /\ creates # {} <=> (c[1].err = "nil" /\ ~c[1].found)
            /\ creates \subseteq {2}
            /\ \A i \in creates : c[i].name = mgmtCall.projectName
            /\ IF c[1].err = "nil" /\ (c[1].found \/ c[2].err = "nil")
               THEN LET sa == c[Len(c)]
                        project == IF c[1].found THEN c[1].project ELSE c[2].project
                    IN  /\ inserts = {Len(c)}
                        /\ project.Name = mgmtCall.projectName
                        /\ sa.project = project.ID
                        /\ sa.name = mgmtCall.serviceAccountName
                        /\ sa.err = "nil" =>
                              /\ mgmtCall.result.err = "nil"
                              /\ mgmtCall.result.key = sa.account.Value
                              /\ sa.account.Project = project.ID
                              /\ sa.account.Name = mgmtCall.serviceAccountName
                              /\ accounts = Append(mgmtCall.before.accounts, sa.account)
               ELSE inserts = {}

\* the tenant did not exist: it was created and the key made under the new project
C13_Witness ==
    /\ IsIssue
    /\ mgmtCall.before.projects = <<ProjectOther>>
    /\ mgmtCall.projectName = defaultProjectName
    /\ Len(mgmtCall.calls) = 3
    /\ mgmtCall.calls[2].op = "CreateProject"
    /\ mgmtCall.calls[3].project = mgmtCall.calls[2].project.ID
    /\ mgmtCall.result.err = "nil"
    /\ mgmtCall.result.key = accounts[Len(accounts)].Value

\* every service account has its own ID and its own secret value
DistinctCredentials ==
    \A i, j \in 1..Len(accounts) :
        i # j => accounts[i].ID # accounts[j].ID /\ accounts[i].Value # accounts[j].Value

\* a step that handles a callback up to a successful CreateAPIKey
IssuedStep ==
    /\ CallbackStep
    /\ Did(last', "CreateAPIKey")
    /\ TheCall(last', "CreateAPIKey").err = "nil"

\* C14: issuance is not idempotent: every successful issue makes one
\* CreateServiceAccount request, without looking for an account the principal already
\* has, and adds one service account whose ID and secret value differ from those of
\* every account there is, also of the same tenant and principal; so n issues for one
\* principal leave n accounts with n distinct IDs and secret values
C14_IssueNotIdempotent ==
    /\ []DistinctCredentials
    /\ [][IssuedStep =>
            LET call == TheCall(last', "CreateAPIKey")
                n == Len(accounts)
                new == accounts'[n + 1]
            IN  /\ Len(accounts') = n + 1
                /\ SubSeq(accounts', 1, n) = accounts
                /\ new.Name = call.serviceAccountName
                /\ \A i \in 1..n : accounts[i].ID # new.ID /\ accounts[i].Value # new.Value
                /\ last'.resp.key = new.Value
                /\ Cardinality({k \in 1..Len(call.calls) :
                                   call.calls[k].op = "CreateServiceAccount"}) = 1
                /\ \A k \in 1..Len(call.calls) :
                      call.calls[k].op \in {"GetProject", "CreateProject",
                                            "CreateServiceAccount"}]_vars

\* the second key of one principal: another account of the same name and project
C14_Witness ==
    /\ IsCallback
    /\ Len(accounts) = 2
    /\ accounts[1].Name = accounts[2].Name
    /\ accounts[1].Project = accounts[2].Project
    /\ accounts[1].ID # accounts[2].ID
    /\ accounts[1].Value # accounts[2].Value
    /\ last.resp.key = accounts[2].Value

\* C15: when GetProject, CreateProject or CreateServiceAccount fails, CreateAPIKey
\* returns an error with an empty secret and no expiry, and the failed request is its
\* last: after a GetProject error neither create call is made, after a CreateProject
\* error CreateServiceAccount is not called, and no service account is added
C15_IssueFailure ==
    IsIssue =>
        LET c == mgmtCall.calls
            failed == FailedCalls(mgmtCall)
        IN  /\ failed # {} <=> mgmtCall.result.err # "nil"
            /\ failed # {} =>
                  /\ failed = {Len(c)}
                  /\ mgmtCall.result.key = NoKey
                  /\ mgmtCall.result.expiration = NoTime
                  /\ c[Len(c)].op = "GetProject" =>
                        ~Did(mgmtCall, "CreateProject")
                        /\ ~Did(mgmtCall, "CreateServiceAccount")
                  /\ c[Len(c)].op = "CreateProject" => ~Did(mgmtCall, "CreateServiceAccount")
                  /\ accounts = mgmtCall.before.accounts
            /\ failed = {} =>
                  /\ mgmtCall.result.key # NoKey
                  /\ mgmtCall.result.expiration # NoTime

\* the tenant could not be created
C15_Witness ==
    /\ IsIssue
    /\ Len(mgmtCall.calls) = 2
    /\ mgmtCall.calls[1].err = "nil"
    /\ mgmtCall.calls[2].op = "CreateProject"
    /\ mgmtCall.calls[2].err = "create project: execute http request: timeout"
    /\ mgmtCall.result =
          [key |-> NoKey, expiration |-> NoTime,
           err |-> "create project: create project: execute http request: timeout"]

\* C16: the expiry a successful CreateAPIKey returns is the time of the local clock when
\* the service account was created plus the configured expiration, and the callback
\* page shows that returned value (as the wall clock of Asia/Tokyo)
C16_ExpiryIsNowPlusExpiration ==
    [][(CallbackStep /\ last'.resp.status = StatusOK) =>
          LET call == TheCall(last', "CreateAPIKey")
          IN  /\ call.err = "nil"
              /\ call.expiration = <<now + Expiration>>
              /\ accounts'[Len(accounts')].CreatedAt = now
              /\ last'.resp.expires = <<"Asia/Tokyo", call.expiration[1] + 9 * 3600>>]_vars

\* a key issued one second after the start
C16_Witness ==
    /\ IsCallback
    /\ last.resp.status = StatusOK
    /\ now = 1
    /\ TheCall(last, "CreateAPIKey").expiration = <<1 + Expiration>>
    /\ last.resp.expires = <<"Asia/Tokyo", 1 + Expiration + 9 * 3600>>

-----------------------------------------------------------------------------
(* The cleanup sweep *)

IsSweep == mgmtCall.op = "CleanupAPIKey"

\* the tenant of the sweep among the projects the resource API held before it
TenantExists ==
    \E i \in 1..Len(mgmtCall.before.projects) :
        mgmtCall.before.projects[i].Name = mgmtCall.projectName

TenantID ==
    LET named == {i \in 1..Len(mgmtCall.before.projects) :
                     mgmtCall.before.projects[i].Name = mgmtCall.projectName}
    IN  mgmtCall.before.projects[CHOOSE i \in named : \A j \in named : i <= j].ID

\* the positions, among the accounts held before the sweep, of the tenant's accounts
TenantAccounts ==
    {i \in 1..Len(mgmtCall.before.accounts) : mgmtCall.before.accounts[i].Project = TenantID}

\* an account older than the configured expiration at the time of the sweep
Expired(account) == account.CreatedAt < mgmtCall.at - Expiration

Deletes == CallsOf(mgmtCall, "DeleteServiceAccount")
DeletedIDs == {mgmtCall.calls[i].id : i \in {j \in Deletes : mgmtCall.calls[j].err = "nil"}}

\* C17: a sweep in which no call fails issues a delete for exactly the listed service
\* accounts with createdAt < now - expiration, once each: an account with
\* createdAt = now - expiration is kept, one with createdAt = now - expiration - 1 is
\* deleted, and no account with createdAt >= now - expiration is deleted
C17_SweepDeletesExpired ==
    (IsSweep /\ TenantExists /\ FailedCalls(mgmtCall) = {}) =>
        LET before == mgmtCall.before.accounts
            expired == {i \in TenantAccounts : Expired(before[i])}
        IN  /\ mgmtCall.result.err = "nil"
            /\ {mgmtCall.calls[i].id : i \in Deletes} = {before[i].ID : i \in expired}
            /\ Cardinality(Deletes) = Cardinality(expired)
            /\ \A i \in TenantAccounts :
                  /\ before[i].CreatedAt = mgmtCall.at - Expiration =>
                        before[i].ID \notin DeletedIDs
                  /\ before[i].CreatedAt = mgmtCall.at - Expiration - 1 =>
                        before[i].ID \in DeletedIDs
                  /\ before[i].CreatedAt >= mgmtCall.at - Expiration =>
                        before[i].ID \notin DeletedIDs
            /\ accounts = SelectSeq(before, LAMBDA a : ~(a.Project = TenantID /\ Expired(a)))

\* one account exactly at the cutoff, kept, and one a second older, deleted
C17_Witness ==
    /\ IsSweep
    /\ TenantExists
    /\ mgmtCall.result.err = "nil"
    /\ Len(mgmtCall.before.accounts) = 2
    /\ TenantAccounts = {1, 2}
    /\ mgmtCall.before.accounts[1].CreatedAt = mgmtCall.at - Expiration
    /\ mgmtCall.before.accounts[2].CreatedAt = mgmtCall.at - Expiration - 1
    /\ accounts = <<mgmtCall.before.accounts[1]>>

\* C18: the sweep stops at the first delete that fails: it returns that error, sends no
\* delete for any account later in the listing, expired or not, and the accounts it
\* deleted before stay deleted
C18_SweepAbortsOnDeleteFailure ==
    (IsSweep /\ \E i \in Deletes : mgmtCall.calls[i].err # "nil") =>
        LET c == mgmtCall.calls
            before == mgmtCall.before.accounts
            f == CHOOSE i \in Deletes : c[i].err # "nil"
            at == CHOOSE i \in TenantAccounts : before[i].ID = c[f].id
        IN  /\ f = Len(c)
            /\ FailedCalls(mgmtCall) = {f}
            /\ mgmtCall.result.err = "delete service account: " \o c[f].err
            /\ DeletedIDs = {before[i].ID : i \in {j \in TenantAccounts :
                                                     j < at /\ Expired(before[j])}}
            /\ accounts = SelectSeq(before, LAMBDA a : a.ID \notin DeletedIDs)
            /\ \A i \in 1..Len(before) :
                  i >= at => \E j \in 1..Len(accounts) : accounts[j] = before[i]

\* the first of two expired accounts could not be deleted: the second stays
C18_Witness ==
    /\ IsSweep
    /\ TenantExists
    /\ Len(mgmtCall.before.accounts) = 2
    /\ TenantAccounts = {1, 2}
    /\ Expired(mgmtCall.before.accounts[1])
    /\ Expired(mgmtCall.before.accounts[2])
    /\ Cardinality(Deletes) = 1
    /\ TheCall(mgmtCall, "DeleteServiceAccount").id = mgmtCall.before.accounts[1].ID
    /\ mgmtCall.result.err # "nil"
    /\ accounts = mgmtCall.before.accounts

\* C19: CleanupAPIKey returns an error and sends no delete request when the lookup of
\* the tenant fails, when the tenant does not exist (then it does not list either), or
\* when the listing of the service accounts fails; it never creates the tenant, and
\* leaves the projects as they were
C19_SweepNeedsTenantAndListing ==
    IsSweep =>
        LET c == mgmtCall.calls
        IN  /\ ~Did(mgmtCall, "CreateProject")
            /\ projects = mgmtCall.before.projects
            /\ c[1].op = "GetProject"
            /\ (c[1].err = "nil" /\ ~TenantExists) => Len(c) = 1
            /\ (\/ c[1].err # "nil"
                \/ ~TenantExists
                \/ Did(mgmtCall, "ListServiceAccounts")
                     /\ TheCall(mgmtCall, "ListServiceAccounts").err # "nil")
               => /\ mgmtCall.result.err # "nil"
                  /\ Deletes = {}
                  /\ accounts = mgmtCall.before.accounts

\* a sweep of a tenant that does not exist, while another project holds an expired
\* account
C19_Witness ==
    /\ IsSweep
    /\ mgmtCall.projectName = defaultProjectName
    /\ mgmtCall.before.projects = <<ProjectOther>>
    /\ Len(mgmtCall.before.accounts) = 1
    /\ Expired(mgmtCall.before.accounts[1])
    /\ mgmtCall.calls[1].err = "nil"
    /\ mgmtCall.result.err = "find project personal"
    /\ projects = <<ProjectOther>>

\* C20: every delete request of CleanupAPIKey(tenant) names the ID of the project
\* resolved for the tenant name and the ID of a service account of that project which
\* the sweep's own listing returned; the service accounts of other projects stay
C20_SweepStaysInTenant ==
    IsSweep =>
        /\ \A i \in Deletes :
              /\ TenantExists
              /\ mgmtCall.calls[i].project = TenantID
              /\ mgmtCall.calls[i].id \in {mgmtCall.before.accounts[j].ID : j \in TenantAccounts}
              /\ LET listing == TheCall(mgmtCall, "ListServiceAccounts")
                 IN  /\ listing.project = TenantID
                     /\ \E j \in 1..Len(listing.accounts) :
                           listing.accounts[j].ID = mgmtCall.calls[i].id
        /\ IF TenantExists
           THEN SelectSeq(accounts, LAMBDA a : a.Project # TenantID)
                    = SelectSeq(mgmtCall.before.accounts, LAMBDA a : a.Project # TenantID)
           ELSE accounts = mgmtCall.before.accounts

\* the tenant's expired account deleted, the other project's expired account kept
C20_Witness ==
    /\ IsSweep
    /\ mgmtCall.projectName = defaultProjectName
    /\ Len(mgmtCall.before.accounts) = 2
    /\ mgmtCall.before.accounts[1].Project = ProjectOther.ID
    /\ mgmtCall.before.accounts[2].Project = ProjectPersonal.ID
    /\ Expired(mgmtCall.before.accounts[1])
    /\ Expired(mgmtCall.before.accounts[2])
    /\ DeletedIDs = {mgmtCall.before.accounts[2].ID}
    /\ accounts = <<mgmtCall.before.accounts[1]>>

-----------------------------------------------------------------------------
(* Projects *)

\* the requests a handled request sent to the resource API, in order
RECURSIVE ApiRequests(_, _)
ApiRequests(calls, i) ==
    IF i > Len(calls) THEN <<>>
    ELSE (IF calls[i].op \in {"CreateAPIKey", "CleanupAPIKey"} THEN calls[i].calls ELSE <<>>)
             \o ApiRequests(calls, i + 1)

\* C21: no step of the system (GET /, GET /oauth2/callback with its issuance, /revoke
\* with its cleanup) deletes or modifies a project: every project the resource API
\* holds stays as it is, and the only project-level write ever sent is the CreateProject
\* of an issuance, which adds the tenant as one new project
C21_ProjectsOnlyCreated ==
    [][ /\ Len(projects') \in {Len(projects), Len(projects) + 1}
        /\ \A i \in 1..Len(projects) : projects'[i] = projects[i]
        /\ last' # last =>
              LET sent == ApiRequests(last'.calls, 1)
                  writes == {i \in 1..Len(sent) : sent[i].op = "CreateProject"}
              IN  /\ \A i \in 1..Len(sent) :
                        sent[i].op \in {"GetProject", "CreateProject", "CreateServiceAccount",
                                        "ListServiceAccounts", "DeleteServiceAccount"}
                  /\ writes # {} =>
                        /\ last'.handler = "HandleOAuthCallback"
                        /\ Did(last', "CreateAPIKey")
                        /\ Cardinality(writes) = 1
                        /\ \A i \in writes :
                              sent[i].name = TheCall(last', "CreateAPIKey").projectName
                  /\ projects' # projects =>
                        /\ \E i \in writes : sent[i].err = "nil"
                        /\ projects'[Len(projects')].Name =
                              TheCall(last', "CreateAPIKey").projectName
                        /\ \A i \in 1..Len(projects) :
                              projects[i].ID # projects'[Len(projects')].ID
        /\ last' = last => projects' = projects ]_vars

\* the tenant created by an issuance is still there after a /revoke that deleted its
\* last service account
C21_Witness ==
    /\ last.handler = "HandleRevoke"
    /\ \E i \in 1..Len(ApiRequests(last.calls, 1)) :
          /\ ApiRequests(last.calls, 1)[i].op = "DeleteServiceAccount"
          /\ ApiRequests(last.calls, 1)[i].err = "nil"
    /\ accounts = <<>>
    /\ projects = <<[ID |-> <<"proj", 1>>, Name |-> defaultProjectName]>>

-----------------------------------------------------------------------------
(* /revoke *)

IsRevoke == last.handler = "HandleRevoke"

\* C27: /revoke can be requested in every state, with or without an oauthstate cookie
\* and whatever the sign-in flow has done; every handling of it calls CleanupAPIKey
\* exactly once, for the default project name, makes no other call, leaves the cookie
\* alone, and answers 200 if the cleanup returned no error and 500 if it returned one
C27_RevokeAlwaysSweeps ==
    /\ ENABLED Revoke
    /\ IsRevoke =>
          /\ Len(last.calls) = 1
          /\ last.calls[1].op = "CleanupAPIKey"
          /\ last.calls[1].projectName = defaultProjectName
          /\ last.resp.cookies = <<>>
          /\ jar = last.req.cookie
          /\ IF last.calls[1].err = "nil"
             THEN last.resp.status = StatusOK /\ last.resp.location = NoLocation
             ELSE Is5xx(last.resp)

\* a request without any cookie made the sweep delete a credential and got 200
C27_Witness ==
    /\ IsRevoke
    /\ last.req.cookie = NoCookie
    /\ last.resp.status = StatusOK
    /\ \E i \in 1..Len(last.calls[1].calls) :
          last.calls[1].calls[i].op = "DeleteServiceAccount"

-----------------------------------------------------------------------------
(* In-process state *)

-----------------------------------------------------------------------------
(* The resource client: pagination and errors *)

IsListing == clientCall.op \in {"ListServiceAccounts", "listProjects"}

\* the objects a listing returned
Listed == IF clientCall.op = "ListServiceAccounts" THEN clientCall.result.accounts
          ELSE clientCall.result.projects

\* the exchanges of the call: what it sent and the reply it received, in order
Exchanges == clientCall.result.trace

\* a reply that delivers a page: status 2xx and a body that is a list response
DeliversPage(reply) ==
    /\ reply.transport = "nil"
    /\ reply.StatusCode \in 200..299
    /\ reply.Body.json

\* the data of the pages from the k-th exchange on, one after the other
RECURSIVE PagesData(_, _)
PagesData(trace, k) ==
    IF k > Len(trace) THEN <<>>
    ELSE trace[k].reply.Body.doc.Data \o PagesData(trace, k + 1)

\* C22: when the server answers a listing (ListServiceAccounts, listProjects) with N
\* pages of which all but the last report has_more, the call sends exactly N requests,
\* all GET to the listing's path, the first without an after cursor and each later one
\* with after = last_id of the page before it, and returns without error the data of
\* the N pages one after the other in page order, duplicates kept
C22_ListingConcatenatesPages ==
    (/\ IsListing
     /\ \A k \in 1..Len(Exchanges) : DeliversPage(Exchanges[k].reply)
     /\ \A k \in 1..(Len(Exchanges) - 1) : Exchanges[k].reply.Body.doc.HasMore
     /\ ~Exchanges[Len(Exchanges)].reply.Body.doc.HasMore) =>
        /\ clientCall.result.err = NoError
        /\ Listed = PagesData(Exchanges, 1)
        /\ \A k \in 1..Len(Exchanges) :
              /\ Len(Exchanges[k].sent) = 1
              /\ Exchanges[k].sent[1].method = "GET"
              /\ Exchanges[k].sent[1].path =
                    (IF clientCall.op = "listProjects" THEN "/projects"
                     ELSE "/projects/" \o clientCall.arg.projectID \o "/service_accounts")
              /\ Exchanges[k].sent[1].query.after =
                    (IF k = 1 THEN "" ELSE Exchanges[k - 1].reply.Body.doc.LastID)

\* three pages, an object on two of them: four objects returned, the cursors b and a sent
C22_Witness ==
    /\ clientCall.op = "ListServiceAccounts"
    /\ Len(Exchanges) = 3
    /\ \A k \in 1..3 : DeliversPage(Exchanges[k].reply)
    /\ Exchanges[1].reply.Body.doc = [Data |-> <<Item("a")>>, HasMore |-> TRUE, LastID |-> "b"]
    /\ Exchanges[2].reply.Body.doc = [Data |-> <<Item("a")>>, HasMore |-> TRUE, LastID |-> "a"]
    /\ Exchanges[3].reply.Body.doc.Data = <<Item("c"), Item("a")>>
    /\ Listed = <<Item("a"), Item("a"), Item("c"), Item("a")>>
    /\ Exchanges[2].sent[1].query.after = "b"
    /\ Exchanges[3].sent[1].query.after = "a"

\* the requests of the call, in order
RECURSIVE SentFrom(_, _)
SentFrom(trace, k) ==
    IF k > Len(trace) THEN <<>> ELSE trace[k].sent \o SentFrom(trace, k + 1)

\* C23: GetProject sends GET requests only; when it returns no error it has fetched the
\* project list to its end (every page but the last reported has_more, the last did
\* not), whether or not an earlier page held the name, and it returns found = true with
\* the first project, in page order, whose name equals the requested name, or
\* found = false and no project when no listed project has that name; when the listing
\* fails it returns the error, found = false and no project
C23_GetProjectFirstExactMatch ==
    clientCall.op = "GetProject" =>
        LET r == clientCall.result
            all == PagesData(Exchanges, 1)
            named == {i \in 1..Len(all) : all[i].Name = clientCall.arg.projectName}
        IN  /\ \A i \in 1..Len(SentFrom(Exchanges, 1)) :
                  SentFrom(Exchanges, 1)[i].method = "GET"
            /\ r.err # NoError => ~r.found /\ r.project = NoListItem
            /\ r.err = NoError =>
                  /\ \A k \in 1..Len(Exchanges) :
                        Exchanges[k].reply.Body.doc.HasMore <=> k < Len(Exchanges)
                  /\ r.found <=> named # {}
                  /\ named = {} => r.project = NoListItem
                  /\ named # {} =>
                        r.project = all[CHOOSE i \in named : \A j \in named : i <= j]

\* the name is on the first page (project b) and again on the second (project a): both
\* pages were fetched and b was returned
C23_Witness ==
    /\ clientCall.op = "GetProject"
    /\ clientCall.arg.projectName = "personal"
    /\ Len(Exchanges) = 2
    /\ Exchanges[1].reply.Body.doc.Data = <<Item("b")>>
    /\ Exchanges[2].reply.Body.doc.Data = <<Item("c"), Item("a")>>
    /\ clientCall.result.found
    /\ clientCall.result.project.ID = "b"

IsClientCall == clientCall.op \in {"ListServiceAccounts", "listProjects", "GetProject"}

\* the reply is a response with an error status
ErrorStatus(reply) == reply.transport = "nil" /\ reply.StatusCode >= 400

\* the objects a call returned: none after an error
Returned ==
    IF clientCall.op = "GetProject"
    THEN (IF clientCall.result.found THEN <<clientCall.result.project>> ELSE <<>>)
    ELSE Listed

\* C24: a response with a status >= 400 makes the call that received it fail with an
\* error in which errors.As finds an APIError holding exactly the response's status
\* code and its body as received; doRequest hands no body on, so the body is not
\* decoded as a result even when it is JSON, and the call returns no object
C24_ErrorStatusIsAPIError ==
    /\ (clientCall.op = "doRequest" /\ ErrorStatus(clientCall.arg.reply)) =>
          /\ clientCall.result.err.api = [StatusCode |-> clientCall.arg.reply.StatusCode,
                                          Message |-> clientCall.arg.reply.Body]
          /\ clientCall.result.err.cause = "receive api response"
          /\ clientCall.result.body = NoBody
    /\ IsClientCall =>
          \A k \in 1..Len(Exchanges) :
              ErrorStatus(Exchanges[k].reply) =>
                  /\ k = Len(Exchanges)
                  /\ clientCall.result.err.api = [StatusCode |-> Exchanges[k].reply.StatusCode,
                                                  Message |-> Exchanges[k].reply.Body]
                  /\ Returned = <<>>

\* the second page request of a listing got status 400 with a list response as its
\* body: the listing failed with that status and body and returned nothing
C24_Witness ==
    /\ clientCall.op = "ListServiceAccounts"
    /\ Len(Exchanges) = 2
    /\ Exchanges[1].reply.Body.doc.Data # <<>>
    /\ Exchanges[2].reply.StatusCode = 400
    /\ Exchanges[2].reply.Body.json
    /\ clientCall.result.err.api.StatusCode = 400
    /\ clientCall.result.err.api.Message = Exchanges[2].reply.Body
    /\ clientCall.result.accounts = <<>>

\* the reply is a response whose status is outside 200..299
Non2xx(reply) == reply.transport = "nil" /\ reply.StatusCode \notin 200..299

RequestFailed(reply) == reply.transport # "nil" \/ reply.StatusCode >= 400

\* C26: the client never sends a request again: doRequest hands each request to the
\* HTTP client once, whatever comes back; in a listing (and in GetProject) a request
\* that fails in transport or gets an error status is the call's last request, and the
\* call returns the error and none of the objects of the pages fetched before it
C26_NoRetryNoPartialResult ==
    /\ clientCall.op = "doRequest" => clientCall.result.sent = <<clientCall.arg.req>>
    /\ IsClientCall =>
          \A k \in 1..Len(Exchanges) :
              /\ Len(Exchanges[k].sent) = 1
              /\ RequestFailed(Exchanges[k].reply) =>
                    /\ k = Len(Exchanges)
                    /\ clientCall.result.err # NoError
                    /\ Returned = <<>>

\* two pages with objects were fetched, the third request failed in transport: three
\* requests, an error, no object
C26_Witness ==
    /\ clientCall.op = "ListServiceAccounts"
    /\ Len(Exchanges) = 3
    /\ Exchanges[1].reply.Body.doc.Data # <<>>
    /\ Exchanges[2].reply.Body.doc.Data # <<>>
    /\ Exchanges[3].reply = TransportFailed
    /\ Len(SentFrom(Exchanges, 1)) = 3
    /\ clientCall.result.err.cause = "http client error"
    /\ clientCall.result.accounts = <<>>

-----------------------------------------------------------------------------
(* The periodic cleanup task *)

\* a step in which a sweep of the task begins, ends
SweepBegins == task'.running > task.running
SweepEnds == task'.running < task.running

\* C28: the periodic task begins a sweep for the default project at startup, without a
\* tick, and afterwards begins exactly one sweep for each tick it receives from the
\* ticker; at most one of its sweeps is in progress at any time; after a sweep, failed
\* or not, it waits for the next tick and a waiting tick can start the next sweep; and
\* requests are handled while a sweep is in progress, neither step touching the other
C28_PeriodicTask ==
    /\ [](/\ task.running <= 1
          /\ task.pc = "sweeping" <=> task.running = 1
          /\ task.pc = "select" => task.err # "none"
          /\ (task.pc = "select" /\ task.tick) => ENABLED TaskTick
          /\ task.pc = "sweeping" => ENABLED Revoke /\ ENABLED TaskSweep)
    /\ [][/\ SweepBegins =>
                /\ task'.running = task.running + 1
                /\ \/ task.pc = "start" /\ task'.tick = task.tick
                   \/ task.pc = "select" /\ task.tick /\ ~task'.tick
          /\ (task.tick /\ ~task'.tick) => SweepBegins
          /\ SweepEnds => task'.pc = "select" /\ task'.err # "none"
          /\ last' # last => task' = task
          /\ task' # task => last' = last]_vars

\* after a sweep that failed, a tick started the next sweep; the following tick waits in
\* the channel, and a /revoke request has been answered
C28_Witness ==
    /\ task.pc = "sweeping"
    /\ task.err \notin {"none", "nil"}
    /\ task.tick
    /\ task.running = 1
    /\ IsRevoke

AccountIDs == {<<"sa", i>> : i \in 1..MaxAccounts}

\* the resource API holds the service account id
Held(id) == \E i \in 1..Len(accounts) : accounts[i].ID = id

\* the account id belongs to the default project and is older than the expiration
StaleInTenant(id) ==
    \E i \in 1..Len(accounts), j \in 1..Len(projects) :
        /\ projects[j].Name = defaultProjectName
        /\ accounts[i].ID = id
        /\ accounts[i].Project = projects[j].ID
        /\ accounts[i].CreatedAt < now - Expiration

\* C29: while the server runs (the ticker keeps firing and the task keeps being
\* scheduled), if no sweep of the periodic task returns an error, then every service
\* account of the default project that is older than the configured expiration is
\* eventually gone from the resource API, whether or not /revoke is ever requested
C29_StaleEventuallyDeleted ==
    [](task.err \in {"none", "nil"}) =>
        \A id \in AccountIDs : StaleInTenant(id) ~> ~Held(id)

\* without any /revoke request, the sweeps of the task have deleted every service
\* account the resource API held at startup
C29_Witness ==
    /\ task.pc = "select"
    /\ task.err = "nil"
    /\ last = NoRequest
    /\ nextId = MaxAccounts + 1
    /\ accounts = <<>>
    /\ now = MaxTime

-----------------------------------------------------------------------------
(* Concurrent issuance and cleanup *)

IssueOf(n) == goroutines[n]
SweepOf(n) == goroutines[n]
Running == DOMAIN goroutines

\* the callbacks whose CreateAPIKey call returned a key, and so an expiry to display
Issued == {n \in Issuers \cap Running : IssueOf(n).pc = "returned" /\ IssueOf(n).err = "nil"}

\* the deletions the sweeps made so far: [id, at]
Deletions == UNION {SweepOf(n).deleted : n \in Sweepers \cap Running}

\* C31: cleanup never deletes a credential before the expiry time that CreateAPIKey
\* returned for it (the time the callback page displays): every deletion of an issued
\* credential happens at or after that time
C31_AsStated ==
    \A n \in Issued, d \in Deletions :
        d.id = IssueOf(n).account.ID => d.at >= IssueOf(n).expiration[1]


\* the projects of the resource API that carry the tenant's name
Named(projectName) == {i \in 1..Len(projects) : projects[i].Name = projectName}

\* C32: for any interleaving of CreateAPIKey calls for the same tenant name, the
\* project is created at most once: at most one project of that name exists, and the
\* credentials of all the calls that returned one are in the same project
C32_AsStated ==
    /\ Cardinality(Named(defaultProjectName)) <= 1
    /\ \A n \in Issued, m \in Issued : IssueOf(n).account.Project = IssueOf(m).account.Project


-----------------------------------------------------------------------------
(* Concurrent sweeps *)

\* the error of a sweep whose delete request found the account gone
NotFound == "delete service account: receive api response: not found (status code: 404)"
RaceAbort(g) == g.pc = "returned" /\ g.err = "delete service account: " \o NotFound

HeldIn(list, id) == \E k \in 1..Len(list) : list[k].ID = id
HeldNow(id) == HeldIn(accounts, id)

\* C33 as stated: of two concurrent sweeps over the same tenant, neither fails because
\* the other one already deleted an account that it had listed
C33_AsStated ==
    \A n \in Sweepers \cap Running : ~RaceAbort(SweepOf(n))

\* C33: a sweep that sends the delete request for an account the other sweep already
\* deleted gets the API's not-found error and aborts with it, deleting nothing; a sweep
\* aborts so only over an account the other one deleted, at most one of the two does,
\* and no account is deleted by both
C33_RaceAbortsOneSweep ==
    /\ [](\A n \in Sweepers \cap Running :
            LET g == SweepOf(n)
            IN  /\ RaceAbort(g) =>
                     /\ \E m \in (Sweepers \cap Running) \ {n} :
                           /\ g.listed[g.i].ID \in {d.id : d \in SweepOf(m).deleted}
                           /\ ~RaceAbort(SweepOf(m))
                     /\ g.listed[g.i].ID \notin {d.id : d \in g.deleted}
                /\ \A m \in (Sweepers \cap Running) \ {n} :
                     {d.id : d \in g.deleted} \cap {d.id : d \in SweepOf(m).deleted} = {})
    /\ [][\A n \in Sweepers \cap Running :
            LET g == SweepOf(n)
            IN  (/\ g.pc = "range"
                 /\ goroutines'[n] # g
                 /\ g.i <= Len(g.listed)
                 /\ IsStale(g.listed[g.i], now)
                 /\ ~HeldNow(g.listed[g.i].ID))
                => /\ goroutines'[n].pc = "returned"
                   /\ goroutines'[n].err # "nil"
                   /\ goroutines'[n].deleted = g.deleted
                   /\ accounts' = accounts]_vars

\* one sweep deleted the first account and went on; the other found it gone and aborted
C33_Witness ==
    \E n \in Sweepers \cap Running, m \in Sweepers \cap Running :
        /\ RaceAbort(SweepOf(n))
        /\ SweepOf(n).i = 1
        /\ SweepOf(m).pc = "returned"
        /\ SweepOf(m).err = "nil"
        /\ Cardinality(SweepOf(m).deleted) = MaxAccounts
        /\ accounts = <<>>


-----------------------------------------------------------------------------
(* Issuance during a sweep *)

ListedIDs(g) == {g.listed[k].ID : k \in 1..Len(g.listed)}
ListedAs(g, id) == g.listed[CHOOSE k \in 1..Len(g.listed) : g.listed[k].ID = id]

\* every account a sweep deleted was older than the expiration when the sweep
\* decided on it
DeletedOnlyStale ==
    \A n \in Sweepers \cap Running :
        \A d \in SweepOf(n).deleted :
            /\ d.id \in ListedIDs(SweepOf(n))
            /\ d.at - ListedAs(SweepOf(n), d.id).CreatedAt > Expiration

\* the accounts created since the sweep made its first request
IssuedDuring(g) == {id \in {accounts[k].ID : k \in 1..Len(accounts)} \cup ListedIDs(g) :
                       g.pc # "GetProject" /\ id[2] >= g.began}

\* C34 as stated: under any interleaving of issue and cleanup, a sweep deletes no
\* account whose age at the deletion decision is at most the expiration, and a
\* credential issued while the sweep is in progress is not deleted by that sweep
C34_AsStated ==
    /\ DeletedOnlyStale
    /\ \A n \in Sweepers \cap Running :
          \A d \in SweepOf(n).deleted : d.id \notin IssuedDuring(SweepOf(n))

\* C34: under any interleaving of issue and cleanup, a sweep deletes no account whose
\* age at the deletion decision is at most the expiration, the decision being taken
\* against the clock of that iteration: an iteration over a listed account that is
\* still held removes it, or fails, exactly if the account is older than the
\* expiration then; an account that the sweep did not list is never removed by it
C34_DeletesOnlyListedStale ==
    /\ []DeletedOnlyStale
    /\ [][\A n \in Sweepers \cap Running :
            LET g == SweepOf(n)
                h == goroutines'[n]
            IN  (g.pc = "range" /\ h # g /\ g.i <= Len(g.listed))
                => /\ \A k \in 1..Len(accounts) :
                         accounts[k].ID # g.listed[g.i].ID => HeldIn(accounts', accounts[k].ID)
                   /\ HeldNow(g.listed[g.i].ID) =>
                         (IsStale(g.listed[g.i], now)
                             <=> (~HeldIn(accounts', g.listed[g.i].ID) \/ h.err # "nil"))
                   /\ ~IsStale(g.listed[g.i], now) => h.pc = "range" /\ h.i = g.i + 1]_vars

\* a credential issued after the sweep's first request was listed by it and deleted
\* once it had aged, while the credential issued after the listing is still held
C34_Witness ==
    \E n \in Sweepers \cap Running :
        LET g == SweepOf(n)
        IN  /\ g.pc = "returned"
            /\ g.err = "nil"
            /\ \E d \in g.deleted : d.id \in IssuedDuring(g)
            /\ \E k \in 1..Len(accounts) : accounts[k].ID \notin ListedIDs(g)
            /\ Issued = Issuers


-----------------------------------------------------------------------------
(* Termination of a listing *)

Lister == goroutines["lister"]
ListReturned == Lister.pc = "returned"

\* the listing is in its loop and the last page reported has_more
MorePromised == Lister.pc = "request" /\ Lister.reply # NoReply

\* C35 as stated: every call of ListServiceAccounts or listProjects terminates, for
\* every sequence of replies of the server
C35_AsStated == <>ListReturned

\* C35: a call of ListServiceAccounts or listProjects goes on exactly while the server
\* answers has_more=true, taking the page's last_id for its next cursor even when it is
\* empty or the cursor just sent; it returns at the first reply that fails, cannot be
\* decoded or reports has_more=false, and so terminates unless the server reports
\* has_more=true for ever
C35_ReturnsUnlessMoreForever ==
    /\ [](/\ ListReturned => ~Continues(Lister.reply)
          /\ ListReturned /\ Lister.err # NoError => Lister.all = <<>>
          /\ MorePromised => /\ Continues(Lister.reply)
                             /\ Lister.after = Lister.reply.Body.doc.LastID
                             /\ Lister.err = NoError)
    /\ (<>ListReturned \/ []<>MorePromised)

\* the listing returned every item the server holds although a page that reported
\* has_more=true had an empty last_id, which the next request sent as its cursor
C35_Witness ==
    /\ ListReturned
    /\ Lister.err = NoError
    /\ Len(Lister.all) = MaxListed
    /\ Lister.sent = ""
    /\ Lister.reply.Body.doc.Data # <<>>


-----------------------------------------------------------------------------
(* The session's end *)

\* START: the root handler set the state cookie and redirected to the provider
Started == last.handler = "HandleRoot" /\ last.resp.status = StatusFound

\* done: a rendered credential or an error response
Done ==
    /\ last.handler \in {"HandleRoot", "HandleOAuthCallback"}
    /\ last.resp.location = NoLocation

\* the callback sent the browser back to START
Restarted == IsCallback /\ IsRedirectToRoot(last.resp)

\* C36 as stated: every browser session that enters START eventually reaches done
C36_AsStated == Started ~> Done


\* the callback's state parameter differs from the cookie the request carries
StateMismatch(req) ==
    req.code # "" /\ req.state # "" /\ req.cookie # NoCookie /\ req.cookie # req.state

\* the provider rejected the exchange of the code
ExchangeRejected(l) == Did(l, "Exchange") /\ TheCall(l, "Exchange").result = "RetrieveError"

\* C36: every request of the session is answered by a rendered credential, an error
\* response or a redirect; the callback redirects back to START exactly on a state
\* mismatch or a provider-rejected exchange, every time one happens, so a session that
\* entered START reaches done unless it is sent back to START again and again
C36_DoneUnlessRestartedForever ==
    /\ [](/\ last.handler = "HandleRoot" => Started \/ Done
          /\ IsCallback => /\ Restarted \/ Done
                           /\ Restarted <=> StateMismatch(last.req) \/ ExchangeRejected(last))
    /\ ((Started ~> Done) \/ []<>Restarted)

\* the callback, after a credential was rendered earlier in the session, sent the
\* browser back to START because the provider rejected the code
C36_Witness ==
    /\ Restarted
    /\ ExchangeRejected(last)
    /\ Len(accounts) = MaxAccounts
    /\ jar = NoCookie


-----------------------------------------------------------------------------
(* Where a matching state comes from *)

\* C37 as stated: every state value that passes the callback's state check was
\* generated by the server's START step for that session, that is, it is the value
\* the browser holds from the Set-Cookie of GET / and one generateStateOauthCookie
\* returns; a self-chosen cookie with an identical state does not reach the exchange
C37_AsStated ==
    [][(CallbackStep /\ Matched(last')) =>
          /\ last'.req.state \in IssuedStates
          /\ last'.req.state = jar]_vars

\* C37: the state check passes exactly for a non-empty state parameter equal to the
\* oauthstate cookie the same request carries, whoever chose the two: the server keeps
\* no record of the values it generated, and a request with a self-chosen cookie and
\* an identical state reaches the token exchange like one with an issued pair
C37_MatchIsCookieEquality ==
    IsCallback =>
        (Matched(last) <=> /\ last.req.code # ""
                           /\ last.req.state # ""
                           /\ last.req.cookie # NoCookie
                           /\ last.req.state = last.req.cookie)

\* a credential rendered to a request whose cookie and state the server never issued
C37_Witness ==
    /\ Matched(last)
    /\ last.req.cookie = ChosenState
    /\ last.req.state = ChosenState
    /\ last.resp.status = StatusOK
    /\ last.resp.key # NoKey
    /\ jar \in IssuedStates


-----------------------------------------------------------------------------
(* Emails without exactly one "@" *)

\* C38: an email that does not hold exactly one "@" (none, or two or more) is never
\* admitted through the domain rule, whatever hd and the allowed-domain list are: it is
\* admitted if and only if the whole string is in the explicit user list
C38_NoDomainRuleWithoutOneAt ==
    (oidcCall.op = "isUserAllowed" /\ AtSigns(oidcCall.email) # 1) =>
        (oidcCall.allowed <=> oidcCall.email \in allowedUsers)

\* two "@": the text after the last one is the hd claim and an allowed domain, the
\* email is not in the explicit list, and the call denies it
C38_Witness ==
    /\ oidcCall.op = "isUserAllowed"
    /\ oidcCall.email = <<"u", "@", "@", "d">>
    /\ oidcCall.hd = <<"d">>
    /\ <<"d">> \in allowedDomains
    /\ oidcCall.email \notin allowedUsers
    /\ ~oidcCall.allowed

====
